---- MODULE Spec2Model ----
(***************************************************************************)
(* A model of the gemini-client crate (src/src/lib.rs, src/src/types.rs):  *)
(* the function-calling orchestrator                                       *)
(* GeminiClient::generate_content_with_function_calling, the transport     *)
(* call GeminiClient::generate_content under it, the paginated             *)
(* GeminiClient::list_models, the event stream of                          *)
(* GeminiClient::stream_content, and the serde wire form of ContentPart,   *)
(* Tool, FunctionDeclaration and GenerateContentResponse.                  *)
(*                                                                         *)
(* Strings that the code only passes around are TLA+ strings.  Strings     *)
(* that the code builds with format! are sequences of their pieces, and    *)
(* strings that the code searches (model names) are sequences of           *)
(* one-character strings.  Option<T> is <<>> for None and <<x>> for        *)
(* Some(x).  A JSON value is a record tagged by its kind `j`; an object    *)
(* keeps its entries in document order.                                    *)
(***************************************************************************)
EXTENDS Integers, Sequences, FiniteSets, TLC

VARIABLES
    client,             \* GeminiClient: api_key, api_url (shared by every exchange)
    function_handlers,  \* the handler registry: a function from registered names
    pc,                 \* per exchange: where the orchestrator loop stands
    request,            \* per exchange: the orchestrator's `mut request`
    response,           \* per exchange: Option of the reply under inspection
    sent,               \* per exchange: the requests posted so far, oldest first
    received,           \* per exchange: what each transport call returned
    invoked,            \* per exchange: the handler invocations so far
    result,             \* per exchange: Option of the value returned to the caller
    server,             \* list_models: the catalogue pages the server serves
    lm_pc,              \* list_models: position in the function
    lm_models,          \* list_models: `models`
    lm_next_page_token, \* list_models: `next_page_token`
    lm_requests,        \* list_models: the GET requests made so far
    lm_replies,         \* list_models: the HTTP replies to them
    lm_result,          \* list_models: Option of the returned value
    es,                 \* stream_content: the state of the EventSource `stream`
    st_pc,              \* stream_content: position of the returned stream
    st_events,          \* stream_content: what stream.next() returned so far
    st_items,           \* stream_content: the items the returned stream yielded
    cd_input,           \* serde: the call, value or wire object a program starts from
    cd_trace            \* serde: the constructor and codec steps applied to it so far

orchVars == <<pc, request, response, sent, received, invoked, result>>
lmVars == <<server, lm_pc, lm_models, lm_next_page_token, lm_requests, lm_replies, lm_result>>
stVars == <<es, st_pc, st_events, st_items>>
cdVars == <<cd_input, cd_trace>>
vars == <<client, function_handlers, orchVars, lmVars, stVars, cdVars>>

-----------------------------------------------------------------------------
(* Bounds of the model *)

\* the orchestrator loop has no cap; the model stops posting after this many calls
MaxCalls == 3
\* the number of entries of the server's catalogue
MaxModels == 3
\* the most entries the server puts on one page
MaxPageLen == 2

-----------------------------------------------------------------------------
(* Option<T> *)

None == <<>>
Some(x) == <<x>>
IsSome(o) == o # <<>>
Unwrap(o) == o[1]

Last(s) == s[Len(s)]

-----------------------------------------------------------------------------
(* types.rs: the content model *)

Role == {"user", "system", "model", "tool"}

\* ContentData, one record shape per variant
Text(s) == [tag |-> "Text", text |-> s]
InlineData(m, d) == [tag |-> "InlineData", mime_type |-> m, data |-> d]
FileData(m, u) == [tag |-> "FileData", mime_type |-> m, file_uri |-> u]
FunctionCall(n, a) == [tag |-> "FunctionCall", name |-> n, arguments |-> a]
FunctionResponsePayload(c) == [content |-> c]
FunctionResponse(n, c) ==
    [tag |-> "FunctionResponse", name |-> n, response |-> FunctionResponsePayload(c)]
ExecutableCode(c) == [tag |-> "ExecutableCode", code |-> c]
CodeExecutionResult(v) == [tag |-> "CodeExecutionResult", value |-> v]

\* ContentPart
ContentPart(t, d, m) == [thought |-> t, data |-> d, metadata |-> m]

\* FromContentData that marks the part as a thought with a signature
FromContentDataAsThought(data) == ContentPart(TRUE, data, Some("sig"))

\* impl From<ContentData> for ContentPart
FromContentData(data) == ContentPart(FALSE, data, None)

\* Content
Content(parts, role) == [parts |-> parts, role |-> role]

\* GenerateContentRequest
GenerateContentRequest(contents) ==
    [system_instruction |-> None,
     contents |-> contents,
     tools |-> <<>>,
     tool_config |-> None,
     generation_config |-> None]

\* Candidate (the fields the client reads) and GenerateContentResponse
Candidate(parts) == [content |-> Content(parts, "model"), finish_reason |-> Some("STOP")]

GenerateContentResponse(candidates, id) ==
    [candidates |-> candidates,
     prompt_feedback |-> None,
     usage_metadata |-> [total_token_count |-> Len(candidates)],
     model_version |-> "gemini",
     response_id |-> id]

-----------------------------------------------------------------------------
(* lib.rs: GeminiError and Result *)

\* GeminiError::Http(reqwest::Error); `kind` is the reqwest error's kind
Http(kind) == [variant |-> "Http", kind |-> kind, message |-> <<>>]
\* GeminiError::Api(String)
Api(message) == [variant |-> "Api", kind |-> "", message |-> message]
\* GeminiError::Json(serde_json::Error)
Json(message) == [variant |-> "Json", kind |-> "", message |-> message]
\* GeminiError::FunctionExecution(String)
FunctionExecution(message) == [variant |-> "FunctionExecution", kind |-> "", message |-> message]

Ok(v) == [ok |-> TRUE, value |-> v]
Err(e) == [ok |-> FALSE, error |-> e]

-----------------------------------------------------------------------------
(* What the network and the server can answer to one HTTP request *)

StatusCodes == {200, 429, 500}

\* StatusCode::is_success
IsSuccess(status) == status >= 200 /\ status <= 299

\* Display of a StatusCode
StatusText(status) ==
    CASE status = 200 -> "200 OK"
      [] status = 429 -> "429 Too Many Requests"
      [] status = 500 -> "500 Internal Server Error"

\* send() failed: no response at all
NetworkError == [net |-> "error"]
\* a response whose body cannot be read to its end
BrokenBody(status) == [net |-> "ok", status |-> status, readable |-> FALSE]
\* a response with body `text`; `parsed` is what serde_json makes of that text
\* for the type the caller asks for (None: it does not parse)
Body(status, text, parsed) ==
    [net |-> "ok", status |-> status, readable |-> TRUE, text |-> text, parsed |-> parsed]

\* async fn handle_error
handle_error(http) ==
    IF ~http.readable
    THEN Err(Http("body"))
    ELSE Err(Api(<<"status ", StatusText(http.status), ": ", http.text>>))

\* GeminiClient::generate_content, from the reply to its POST
generate_content(http) ==
    IF http.net = "error" THEN Err(Http("request"))
    ELSE IF ~IsSuccess(http.status) THEN handle_error(http)
    ELSE IF ~http.readable THEN Err(Http("body"))
    ELSE IF http.parsed = None THEN Err(Http("decode"))
    ELSE Ok(Unwrap(http.parsed))

\* the URL generate_content posts to
GenerateContentUrl(c, model) ==
    <<c.api_url, "/models/", model, ":generateContent?key=", c.api_key>>

-----------------------------------------------------------------------------
(* types.rs: the wire form (JSON) of the serde types *)

\* JSON values; a serde_json::Value field is written as the value it holds
JString(s) == [j |-> "string", s |-> s]
JBool(b) == [j |-> "bool", b |-> b]
JValue(v) == [j |-> "value", v |-> v]
JArray(items) == [j |-> "array", items |-> items]
Entry(k, v) == [k |-> k, v |-> v]
JObject(entries) == [j |-> "object", entries |-> entries]
JNull == JValue("null")

\* a struct is read from an object (serde also reads one from the sequence of
\* its fields; no wire value here is such a sequence)
IsObject(json) == json.j = "object"

Keys(json) == {json.entries[i].k : i \in 1..Len(json.entries)}

\* the value of the first entry with this key
Get(json, key) ==
    LET Is(e) == e.k = key
        found == SelectSeq(json.entries, Is)
    IN  IF found = <<>> THEN None ELSE Some(found[1].v)

\* serde_json's error for a value that does not fit the type
Invalid(what) == Err(Json(<<what>>))

\* a String field of a struct
StringField(json, key) ==
    IF Get(json, key) = None THEN Invalid("missing field")
    ELSE IF Unwrap(Get(json, key)).j # "string" THEN Invalid("invalid type")
    ELSE Ok(Unwrap(Get(json, key)).s)

\* a serde_json::Value: any JSON is one
DeserializeValue(json) == IF json.j = "value" THEN json.v ELSE json

\* a serde_json::Value field of a struct
ValueField(json, key) ==
    IF Get(json, key) = None THEN Invalid("missing field")
    ELSE Ok(DeserializeValue(Unwrap(Get(json, key))))

-----------------------------------------------------------------------------
(* types.rs: the values of Tool and FunctionDeclaration, and reading a struct *)

JNumber(n) == [j |-> "number", n |-> n]

JStrings(strings) == JArray([i \in 1..Len(strings) |-> JString(strings[i])])

\* ParameterProperty, one record shape per variant
ParameterPropertyString(description, enum_values) ==
    [variant |-> "String", description |-> description, enum_values |-> enum_values]
ParameterPropertyInteger(description) == [variant |-> "Integer", description |-> description]
ParameterPropertyBoolean(description) == [variant |-> "Boolean", description |-> description]
ParameterPropertyArray(description, items) ==
    [variant |-> "Array", description |-> description, items |-> items]

\* FunctionParameters; `properties` lists the map's entries in the order the
\* HashMap iterates them
FunctionParameters(parameter_type, properties, required) ==
    [parameter_type |-> parameter_type, properties |-> properties, required |-> required]

FunctionDeclaration(name, description, parameters, returns) ==
    [name |-> name, description |-> description, parameters |-> parameters,
     response |-> returns]

DynamicRetrievalConfig(mode, dynamic_threshold) ==
    [mode |-> mode, dynamic_threshold |-> dynamic_threshold]
DynamicRetrieval(config) == [dynamic_retrieval_config |-> config]

\* Tool, one record shape per variant
ToolFunctionDeclaration(function_declarations) ==
    [variant |-> "FunctionDeclaration", function_declarations |-> function_declarations]
ToolDynamicRetrieval(google_search_retrieval) ==
    [variant |-> "DynamicRetrieval", google_search_retrieval |-> google_search_retrieval]
ToolGoogleSearch(google_search) == [variant |-> "GoogleSearch", google_search |-> google_search]
ToolCodeExecution(code_execution) ==
    [variant |-> "CodeExecution", code_execution |-> code_execution]

\* what Field gives for a key the object does not have
Missing == [j |-> "missing"]

\* the value of a field of the struct, to be read as the field's type
Field(json, key) == IF Get(json, key) = None THEN Missing ELSE Unwrap(Get(json, key))

\* the results of reading the fields of a struct or the items of a list, in
\* order: the values read when all are read, and the first error when not
Collect(results) ==
    IF \A i \in 1..Len(results) : results[i].ok
    THEN Ok([i \in 1..Len(results) |-> results[i].value])
    ELSE SelectSeq(results, LAMBDA r : ~r.ok)[1]

\* the value of a struct or variant built from its fields as read, in the order
\* they are declared; for ParameterProperty the value of "type" names the variant
Struct(type, fields) ==
    IF ~fields.ok THEN fields
    ELSE CASE type = "InlineData" -> Ok(InlineData(fields.value[1], fields.value[2]))
           [] type = "FileData" -> Ok(FileData(fields.value[1], fields.value[2]))
           [] type = "FunctionCall" -> Ok(FunctionCall(fields.value[1], fields.value[2]))
           [] type = "FunctionResponse" ->
                 Ok(FunctionResponse(fields.value[1], fields.value[2]))
           [] type = "ExecutableCode" -> Ok(ExecutableCode(fields.value[1]))
           [] type = "string" -> Ok(ParameterPropertyString(fields.value[1], fields.value[2]))
           [] type = "integer" -> Ok(ParameterPropertyInteger(fields.value[1]))
           [] type = "boolean" -> Ok(ParameterPropertyBoolean(fields.value[1]))
           [] type = "array" -> Ok(ParameterPropertyArray(fields.value[1], fields.value[2]))
           [] type = "FunctionParameters" ->
                 Ok(FunctionParameters(fields.value[1], fields.value[2], fields.value[3]))
           [] type = "FunctionDeclaration" ->
                 Ok(FunctionDeclaration(fields.value[1], fields.value[2], fields.value[3],
                                        fields.value[4]))
           [] type = "Tool::FunctionDeclaration" -> Ok(ToolFunctionDeclaration(fields.value[1]))
           [] type = "Tool::DynamicRetrieval" ->
                 Ok(ToolDynamicRetrieval(DynamicRetrieval(
                        DynamicRetrievalConfig(fields.value[1], fields.value[2]))))
           [] type = "Tool::GoogleSearch" -> Ok(ToolGoogleSearch(fields.value[1]))
           [] type = "Tool::CodeExecution" -> Ok(ToolCodeExecution(fields.value[1]))
           [] type = "Candidate" ->
                 Ok([content |-> Content(fields.value[1], fields.value[2]),
                     finish_reason |-> fields.value[3]])
           [] type = "GenerateContentResponse" ->
                 Ok([candidates |-> fields.value[1],
                     prompt_feedback |-> None,
                     usage_metadata |-> [total_token_count |-> fields.value[2][2]],
                     model_version |-> fields.value[3],
                     response_id |-> fields.value[4]])
           [] OTHER -> Invalid("unknown variant")

-----------------------------------------------------------------------------
(* types.rs: ContentPart and ContentData on the wire *)

\* the variant names of ContentData under rename_all = "camelCase"
ContentDataVariants ==
    {"text", "inlineData", "fileData", "functionCall", "functionResponse",
     "executableCode", "codeExecutionResult"}

is_false(value) == ~value

\* Serialize for ContentData (externally tagged): the one entry it writes
SerializeContentData(data) ==
    CASE data.tag = "Text" -> Entry("text", JString(data.text))
      [] data.tag = "InlineData" ->
            Entry("inlineData", JObject(<<Entry("mimeType", JString(data.mime_type)),
                                          Entry("data", JString(data.data))>>))
      [] data.tag = "FileData" ->
            Entry("fileData", JObject(<<Entry("mimeType", JString(data.mime_type)),
                                        Entry("fileUri", JString(data.file_uri))>>))
      [] data.tag = "FunctionCall" ->
            Entry("functionCall", JObject(<<Entry("name", JString(data.name)),
                                            Entry("args", JValue(data.arguments))>>))
      [] data.tag = "FunctionResponse" ->
            Entry("functionResponse",
                  JObject(<<Entry("name", JString(data.name)),
                            Entry("response",
                                  JObject(<<Entry("content", JValue(data.response.content))>>))>>))
      [] data.tag = "ExecutableCode" ->
            Entry("executableCode", JObject(<<Entry("code", JString(data.code))>>))
      [] data.tag = "CodeExecutionResult" ->
            Entry("codeExecutionResult", JValue(data.value))

\* a variant: the thought flag is never written
SerializeContentPartNoThought(part) == JObject(<<SerializeContentData(part.data)>>)

\* a variant: metadata is written like any other field
SerializeContentPartWithMetadata(part) ==
    JObject((IF is_false(part.thought) THEN <<>> ELSE <<Entry("thought", JBool(part.thought))>>)
            \o <<SerializeContentData(part.data)>>
            \o <<Entry("metadata", IF IsSome(part.metadata)
                                   THEN JValue(Unwrap(part.metadata)) ELSE JNull)>>)

\* Serialize for ContentPart: thought unless false, data flattened, no metadata
SerializeContentPart(part) ==
    JObject((IF is_false(part.thought) THEN <<>> ELSE <<Entry("thought", JBool(part.thought))>>)
            \o <<SerializeContentData(part.data)>>)

\* Deserialize for ContentData, from the entry that names the variant, and for
\* the structs InlineData, FileData, FunctionCall, FunctionResponse,
\* FunctionResponsePayload and ExecutableCode that the variants hold
DeserializeContentData(entry) ==
    IF entry.k = "text"
    THEN IF entry.v.j = "string" THEN Ok(Text(entry.v.s)) ELSE Invalid("invalid type")
    ELSE IF entry.k = "codeExecutionResult"
    THEN Ok(CodeExecutionResult(DeserializeValue(entry.v)))
    ELSE IF ~IsObject(entry.v) THEN Invalid("invalid type")
    ELSE CASE entry.k = "inlineData" ->
                 Struct("InlineData", Collect(<<StringField(entry.v, "mimeType"),
                                                StringField(entry.v, "data")>>))
           [] entry.k = "fileData" ->
                 Struct("FileData", Collect(<<StringField(entry.v, "mimeType"),
                                              StringField(entry.v, "fileUri")>>))
           [] entry.k = "functionCall" ->
                 Struct("FunctionCall", Collect(<<StringField(entry.v, "name"),
                                                  ValueField(entry.v, "args")>>))
           [] entry.k = "functionResponse" ->
                 Struct("FunctionResponse",
                        Collect(<<StringField(entry.v, "name"),
                                  IF IsObject(Field(entry.v, "response"))
                                  THEN ValueField(Field(entry.v, "response"), "content")
                                  ELSE Invalid("invalid type")>>))
           [] entry.k = "executableCode" ->
                 Struct("ExecutableCode", Collect(<<StringField(entry.v, "code")>>))

\* the Option<serde_json::Value> field `metadata`: absent or null is None
DeserializeMetadata(json) ==
    IF Get(json, "metadata") = None \/ Get(json, "metadata") = Some(JNull) THEN None
    ELSE Some(DeserializeValue(Unwrap(Get(json, "metadata"))))

\* Deserialize for ContentPart: `thought` defaults to false, `metadata` is
\* read, and the flattened ContentData is taken from the first of the other
\* entries whose key names a variant
DeserializeContentPart(json) ==
    LET IsVariant(e) == e.k \in ContentDataVariants
        variants == IF IsObject(json) THEN SelectSeq(json.entries, IsVariant) ELSE <<>>
    IN  IF ~IsObject(json) THEN Invalid("invalid type")
        ELSE IF Get(json, "thought") # None /\ Unwrap(Get(json, "thought")).j # "bool"
             THEN Invalid("invalid type")
        ELSE IF variants = <<>>
             THEN Invalid("no variant of enum ContentData found in flattened data")
        ELSE IF ~DeserializeContentData(variants[1]).ok THEN DeserializeContentData(variants[1])
        ELSE Ok(ContentPart(IF Get(json, "thought") = None THEN FALSE
                            ELSE Unwrap(Get(json, "thought")).b,
                            DeserializeContentData(variants[1]).value,
                            DeserializeMetadata(json)))

NewCall(fn, of, thought) == [fn |-> fn, of |-> of, thought |-> thought]

\* a variant: the thought flag is dropped
ConstructNoThought(call) == ContentPart(FALSE, call.of, None)

\* the constructors of impl ContentPart and From<ContentData>: what a call
\* returns; `of` holds the arguments other than `thought`
Construct(call) ==
    CASE call.fn = "new_text" -> ContentPart(call.thought, Text(call.of.text), None)
      [] call.fn = "new_inline_data" ->
            ContentPart(call.thought, InlineData(call.of.mime_type, call.of.data), None)
      [] call.fn = "new_file_data" ->
            ContentPart(FALSE, FileData(call.of.mime_type, call.of.file_uri), None)
      [] call.fn = "new_function_call" ->
            ContentPart(call.thought, FunctionCall(call.of.name, call.of.arguments), None)
      [] call.fn = "new_executable_code" ->
            ContentPart(FALSE, ExecutableCode(call.of.code), None)
      [] call.fn = "new_code_execution_result" ->
            ContentPart(FALSE, CodeExecutionResult(call.of.value), None)
      [] call.fn = "new_function_response" ->
            ContentPart(FALSE, FunctionResponse(call.of.name, call.of.response.content), None)
      [] call.fn = "from" -> FromContentData(call.of)

\* one ContentData of every variant
ContentDatas ==
    { Text("4"), InlineData("image/png", "AAAA"), FileData("image/png", "gs://x"),
      FunctionCall("f", "a1"), FunctionCall("g", "null"), FunctionResponse("f", "v1"),
      ExecutableCode("print(1)"), CodeExecutionResult("1"), CodeExecutionResult("null") }

\* the calls a caller can make; new_text, new_inline_data and new_function_call
\* take `thought`, the other constructors do not
ConstructorCalls ==
    {NewCall("from", d, FALSE) : d \in ContentDatas}
    \cup {NewCall("new_text", Text("4"), t) : t \in BOOLEAN}
    \cup {NewCall("new_inline_data", InlineData("image/png", "AAAA"), t) : t \in BOOLEAN}
    \cup {NewCall("new_function_call", FunctionCall("f", a), t) :
             a \in {"a1", "null"}, t \in BOOLEAN}
    \cup { NewCall("new_file_data", FileData("image/png", "gs://x"), FALSE),
           NewCall("new_executable_code", ExecutableCode("print(1)"), FALSE),
           NewCall("new_code_execution_result", CodeExecutionResult("1"), FALSE),
           NewCall("new_function_response", FunctionResponse("f", "v1"), FALSE) }

\* the parts a program can hold
ContentParts ==
    {ContentPart(t, d, m) : t \in BOOLEAN, d \in ContentDatas, m \in {None, Some("sig")}}

\* wire objects a server can send for a part: well formed ones with and
\* without thought and metadata, and ill formed ones
PartWires ==
    {JObject(th \o <<SerializeContentData(d)>> \o md) :
        th \in {<<>>, <<Entry("thought", JBool(TRUE))>>, <<Entry("thought", JBool(FALSE))>>},
        d \in ContentDatas,
        md \in {<<>>, <<Entry("metadata", JValue("sig"))>>, <<Entry("metadata", JNull)>>}}
    \cup { JObject(<<>>),
           JObject(<<Entry("metadata", JValue("sig"))>>),
           JObject(<<Entry("thought", JString("yes")), Entry("text", JString("4"))>>),
           JObject(<<Entry("text", JBool(TRUE))>>),
           JObject(<<Entry("functionCall", JObject(<<Entry("name", JString("f"))>>))>>),
           JObject(<<Entry("text", JString("4")),
                     Entry("functionCall", JObject(<<Entry("name", JString("f")),
                                                     Entry("args", JValue("a1"))>>))>>),
           JObject(<<Entry("functionCall", JObject(<<Entry("name", JString("f")),
                                                     Entry("args", JValue("a1"))>>)),
                     Entry("text", JString("4")), Entry("metadata", JValue("sig"))>>),
           JObject(<<Entry("videoMetadata", JValue("v1")), Entry("text", JString("4"))>>),
           JString("4") }

\* the most constructor and codec steps applied to one input
MaxSteps == 3

\* a step of the codec: what was applied, to what, and what came out
Step(op, ty, form, in, out) == [op |-> op, ty |-> ty, form |-> form, in |-> in, x |-> out]

\* what the next step applies to
Current == IF cd_trace = <<>> THEN cd_input ELSE Last(cd_trace)

\* a caller builds a part with a constructor
New ==
    /\ cd_trace = <<>>
    /\ cd_input.form = "call"
    /\ cd_trace' = <<Step("new", "ContentPart", "value", cd_input.x, Construct(cd_input.x))>>
    /\ UNCHANGED <<client, function_handlers, orchVars, lmVars, stVars, cd_input>>

\* a part is written to the wire
SerializePart ==
    /\ Len(cd_trace) < MaxSteps
    /\ Current.ty = "ContentPart"
    /\ Current.form = "value"
    /\ cd_trace' = Append(cd_trace, Step("serialize", "ContentPart", "wire", Current.x,
                                         SerializeContentPart(Current.x)))
    /\ UNCHANGED <<client, function_handlers, orchVars, lmVars, stVars, cd_input>>

\* a part is read from the wire
DeserializePart ==
    /\ Len(cd_trace) < MaxSteps
    /\ Current.ty = "ContentPart"
    /\ Current.form = "wire"
    /\ LET r == DeserializeContentPart(Current.x)
       IN  cd_trace' = Append(cd_trace,
                              Step("deserialize", "ContentPart",
                                   IF r.ok THEN "value" ELSE "error", Current.x,
                                   IF r.ok THEN r.value ELSE r.error))
    /\ UNCHANGED <<client, function_handlers, orchVars, lmVars, stVars, cd_input>>

-----------------------------------------------------------------------------
(* types.rs: Tool and FunctionDeclaration on the wire *)

\* rename_all = "lowercase" on the variants of ParameterProperty
Lowercase(variant) ==
    CASE variant = "String" -> "string"
      [] variant = "Integer" -> "integer"
      [] variant = "Boolean" -> "boolean"
      [] variant = "Array" -> "array"

\* an Option<String> field with skip_serializing_if = "Option::is_none"
SkipIfNone(key, option) ==
    IF IsSome(option) THEN <<Entry(key, JString(Unwrap(option)))>> ELSE <<>>

RECURSIVE SerializeParameterProperty(_)
\* Serialize for ParameterProperty (tag = "type") and the structs it holds
SerializeParameterProperty(property) ==
    JObject(<<Entry("type", JString(Lowercase(property.variant)))>>
            \o SkipIfNone("description", property.description)
            \o (IF property.variant = "String" /\ IsSome(property.enum_values)
                THEN <<Entry("enum", JStrings(Unwrap(property.enum_values)))>> ELSE <<>>)
            \o (IF property.variant = "Array"
                THEN <<Entry("items", SerializeParameterProperty(property.items))>> ELSE <<>>))

\* a variant: `required` is left out when it is None, and every property is
\* written as a bare type
SerializeFunctionParametersBare(parameters) ==
    JObject(<<Entry("type", JString(parameters.parameter_type)),
              Entry("properties",
                    JObject([i \in 1..Len(parameters.properties) |->
                               Entry(parameters.properties[i].k,
                                     JObject(<<Entry("type",
                                                     JString(parameters.properties[i].v.variant))>>))]))>>
            \o (IF IsSome(parameters.required)
                THEN <<Entry("required", JStrings(Unwrap(parameters.required)))>> ELSE <<>>))

\* Serialize for FunctionParameters
SerializeFunctionParameters(parameters) ==
    JObject(<<Entry("type", JString(parameters.parameter_type)),
              Entry("properties",
                    JObject([i \in 1..Len(parameters.properties) |->
                               Entry(parameters.properties[i].k,
                                     SerializeParameterProperty(parameters.properties[i].v))])),
              Entry("required", IF IsSome(parameters.required)
                                THEN JStrings(Unwrap(parameters.required)) ELSE JNull)>>)

\* Serialize for FunctionDeclaration; an Option without skip_serializing_if is
\* written as null when it is None
SerializeFunctionDeclaration(declaration) ==
    JObject(<<Entry("name", JString(declaration.name)),
              Entry("description", JString(declaration.description)),
              Entry("parameters", IF IsSome(declaration.parameters)
                                  THEN SerializeFunctionParameters(Unwrap(declaration.parameters))
                                  ELSE JNull),
              Entry("response", IF IsSome(declaration.response)
                                THEN SerializeFunctionParameters(Unwrap(declaration.response))
                                ELSE JNull)>>)

\* Serialize for Tool (untagged): the variant's content and nothing else
SerializeTool(tool) ==
    CASE tool.variant = "FunctionDeclaration" ->
            JObject(<<Entry("functionDeclarations",
                            JArray([i \in 1..Len(tool.function_declarations) |->
                                      SerializeFunctionDeclaration(tool.function_declarations[i])]))>>)
      [] tool.variant = "DynamicRetrieval" ->
            JObject(<<Entry("googleSearchRetrieval",
                JObject(<<Entry("dynamicRetrievalConfig",
                    JObject(<<Entry("mode",
                                    JString(tool.google_search_retrieval.dynamic_retrieval_config.mode)),
                              Entry("dynamicThreshold",
                                    JNumber(tool.google_search_retrieval.dynamic_retrieval_config.dynamic_threshold))>>))>>))>>)
      [] tool.variant = "GoogleSearch" ->
            JObject(<<Entry("googleSearch", JValue(tool.google_search))>>)
      [] tool.variant = "CodeExecution" ->
            JObject(<<Entry("codeExecution", JValue(tool.code_execution))>>)

\* an Option<String> field with serde(default): absent or null is None
OptionStringField(json, key) ==
    IF Get(json, key) = None \/ Get(json, key) = Some(JNull) THEN Ok(None)
    ELSE IF Unwrap(Get(json, key)).j # "string" THEN Invalid("invalid type")
    ELSE Ok(Some(Unwrap(Get(json, key)).s))

\* an Option<Vec<String>> field: absent or null is None
OptionStringsField(json, key) ==
    IF Get(json, key) = None \/ Get(json, key) = Some(JNull) THEN Ok(None)
    ELSE LET list == Unwrap(Get(json, key))
         IN  IF list.j # "array" THEN Invalid("invalid type")
             ELSE IF \E i \in 1..Len(list.items) : list.items[i].j # "string"
                  THEN Invalid("invalid type")
             ELSE Ok(Some([i \in 1..Len(list.items) |-> list.items[i].s]))

RECURSIVE DeserializeParameterProperty(_)
\* Deserialize for ParameterProperty: the variant is chosen by the "type" entry
DeserializeParameterProperty(json) ==
    IF ~IsObject(json) THEN Invalid("invalid type")
    ELSE IF ~StringField(json, "type").ok THEN StringField(json, "type")
    ELSE Struct(StringField(json, "type").value,
                Collect(<<OptionStringField(json, "description")>>
                        \o (IF StringField(json, "type").value = "string"
                            THEN <<OptionStringsField(json, "enum")>> ELSE <<>>)
                        \o (IF StringField(json, "type").value = "array"
                            THEN <<DeserializeParameterProperty(Field(json, "items"))>>
                            ELSE <<>>)))

\* Deserialize for HashMap<String, ParameterProperty>
DeserializeProperties(json) ==
    IF ~IsObject(json) THEN Invalid("invalid type")
    ELSE Collect([i \in 1..Len(json.entries) |->
                    IF DeserializeParameterProperty(json.entries[i].v).ok
                    THEN Ok(Entry(json.entries[i].k,
                                  DeserializeParameterProperty(json.entries[i].v).value))
                    ELSE Invalid("invalid type")])

\* Deserialize for FunctionParameters
DeserializeFunctionParameters(json) ==
    IF ~IsObject(json) THEN Invalid("invalid type")
    ELSE Struct("FunctionParameters",
                Collect(<<StringField(json, "type"),
                          DeserializeProperties(Field(json, "properties")),
                          OptionStringsField(json, "required")>>))

\* an Option<FunctionParameters>: absent or null is None
OptionParameters(json) ==
    IF json \in {Missing, JNull} THEN Ok(None)
    ELSE IF DeserializeFunctionParameters(json).ok
         THEN Ok(Some(DeserializeFunctionParameters(json).value))
    ELSE Invalid("invalid type")

\* Deserialize for FunctionDeclaration
DeserializeFunctionDeclaration(json) ==
    IF ~IsObject(json) THEN Invalid("invalid type")
    ELSE Struct("FunctionDeclaration",
                Collect(<<StringField(json, "name"),
                          StringField(json, "description"),
                          OptionParameters(Field(json, "parameters")),
                          OptionParameters(Field(json, "response"))>>))

\* Tool::FunctionDeclaration, read from the wire object: Deserialize for
\* ToolConfigFunctionDeclaration
DeserializeToolConfigFunctionDeclaration(json) ==
    IF ~IsObject(json) THEN Invalid("invalid type")
    ELSE IF Field(json, "functionDeclarations").j # "array" THEN Invalid("invalid type")
    ELSE Struct("Tool::FunctionDeclaration",
                Collect(<<Collect([i \in 1..Len(Field(json, "functionDeclarations").items) |->
                                     DeserializeFunctionDeclaration(
                                         Field(json, "functionDeclarations").items[i])])>>))

\* Tool::DynamicRetrieval, read from the wire object, with Deserialize for
\* DynamicRetrieval and DynamicRetrievalConfig
DeserializeToolDynamicRetrieval(json) ==
    IF ~IsObject(json) THEN Invalid("invalid type")
    ELSE IF ~IsObject(Field(json, "googleSearchRetrieval")) THEN Invalid("invalid type")
    ELSE IF ~IsObject(Field(Field(json, "googleSearchRetrieval"), "dynamicRetrievalConfig"))
         THEN Invalid("invalid type")
    ELSE LET config == Field(Field(json, "googleSearchRetrieval"), "dynamicRetrievalConfig")
         IN  Struct("Tool::DynamicRetrieval",
                    Collect(<<StringField(config, "mode"),
                              IF Field(config, "dynamicThreshold").j = "number"
                              THEN Ok(Field(config, "dynamicThreshold").n)
                              ELSE Invalid("invalid type")>>))

\* Tool::GoogleSearch and Tool::CodeExecution, read from the wire object
DeserializeToolGoogleSearch(json) ==
    IF ~IsObject(json) THEN Invalid("invalid type")
    ELSE Struct("Tool::GoogleSearch", Collect(<<ValueField(json, "googleSearch")>>))

DeserializeToolCodeExecution(json) ==
    IF ~IsObject(json) THEN Invalid("invalid type")
    ELSE Struct("Tool::CodeExecution", Collect(<<ValueField(json, "codeExecution")>>))

\* the first of the results that is not an error, the attempts of an untagged enum
FirstOk(results) ==
    IF \E i \in 1..Len(results) : results[i].ok
    THEN SelectSeq(results, LAMBDA r : r.ok)[1]
    ELSE Invalid("data did not match any variant of untagged enum")

\* a variant: the variants are tried from the last to the first
DeserializeToolLastFirst(json) ==
    FirstOk(<<DeserializeToolCodeExecution(json), DeserializeToolGoogleSearch(json),
              DeserializeToolDynamicRetrieval(json),
              DeserializeToolConfigFunctionDeclaration(json)>>)

\* Deserialize for Tool (untagged): the variants are tried in the order they
\* are declared and the first that reads without error is the result
DeserializeTool(json) ==
    FirstOk(<<DeserializeToolConfigFunctionDeclaration(json),
              DeserializeToolDynamicRetrieval(json),
              DeserializeToolGoogleSearch(json),
              DeserializeToolCodeExecution(json)>>)

\* parameter schemas, nested up to three arrays deep
ParameterProperties ==
    { ParameterPropertyString(None, None),
      ParameterPropertyString(Some("d"), None),
      ParameterPropertyString(None, Some(<<"a", "b">>)),
      ParameterPropertyString(Some("d"), Some(<<"a">>)),
      ParameterPropertyInteger(None),
      ParameterPropertyInteger(Some("d")),
      ParameterPropertyBoolean(None),
      ParameterPropertyBoolean(Some("d")),
      ParameterPropertyArray(None, ParameterPropertyString(None, None)),
      ParameterPropertyArray(Some("d"), ParameterPropertyInteger(Some("d"))),
      ParameterPropertyArray(None, ParameterPropertyArray(Some("d"),
                                       ParameterPropertyString(None, Some(<<"a">>)))),
      ParameterPropertyArray(Some("d"), ParameterPropertyArray(None,
                                       ParameterPropertyArray(None,
                                           ParameterPropertyBoolean(None)))) }

\* the entries of a `properties` map
PropertyMaps ==
    {<<>>}
    \cup {<<Entry("p", property)>> : property \in ParameterProperties}
    \cup { <<Entry("p", ParameterPropertyString(Some("d"), None)),
             Entry("q", ParameterPropertyArray(None, ParameterPropertyString(None, None)))>>,
           <<Entry("q", ParameterPropertyArray(None, ParameterPropertyString(None, None))),
             Entry("p", ParameterPropertyString(Some("d"), None))>> }

FunctionDeclarations ==
    {FunctionDeclaration("f", "does f", None, None)}
    \cup {FunctionDeclaration("f", "does f",
                              Some(FunctionParameters("object", properties, required)), None) :
             properties \in PropertyMaps, required \in {None, Some(<<>>), Some(<<"p">>)}}
    \cup {FunctionDeclaration("g", "does g",
                              Some(FunctionParameters("object", properties, None)),
                              Some(FunctionParameters("object", properties, Some(<<"p">>)))) :
             properties \in PropertyMaps}

\* the tools a request can hold
Tools ==
    {ToolFunctionDeclaration(<<>>)}
    \cup {ToolFunctionDeclaration(<<declaration>>) :
             declaration \in {d \in FunctionDeclarations : d.name = "g"}}
    \cup {ToolFunctionDeclaration(<<FunctionDeclaration("f", "does f", None, None),
                                    FunctionDeclaration("g", "does g", None, None)>>)}
    \cup {ToolDynamicRetrieval(DynamicRetrieval(DynamicRetrievalConfig("MODE_DYNAMIC", t))) :
             t \in {0, 1}}
    \cup {ToolGoogleSearch(v) : v \in {"null", "v1"}}
    \cup {ToolCodeExecution(v) : v \in {"null", "v1"}}

\* the entry each variant of Tool is read from, well formed and ill formed
ToolEntries ==
    { Entry("functionDeclarations", JArray(<<>>)),
      Entry("functionDeclarations", JString("f")),
      Entry("googleSearchRetrieval",
            JObject(<<Entry("dynamicRetrievalConfig",
                            JObject(<<Entry("mode", JString("MODE_DYNAMIC")),
                                      Entry("dynamicThreshold", JNumber(1))>>))>>)),
      Entry("googleSearchRetrieval", JObject(<<>>)),
      Entry("googleSearch", JValue("v1")),
      Entry("codeExecution", JValue("v1")),
      Entry("urlContext", JValue("v1")) }

\* wire objects read as a Tool: with no, one and two entries
ToolWires ==
    {JObject(<<>>), JString("googleSearch")}
    \cup {JObject(<<e>>) : e \in ToolEntries}
    \cup {JObject(<<pair[1], pair[2]>>) :
             pair \in {q \in ToolEntries \X ToolEntries : q[1].k # q[2].k}}

\* a tool is written to the wire
ToolToWire ==
    /\ Len(cd_trace) < MaxSteps
    /\ Current.ty = "Tool"
    /\ Current.form = "value"
    /\ cd_trace' = Append(cd_trace, Step("serialize", "Tool", "wire", Current.x,
                                         SerializeTool(Current.x)))
    /\ UNCHANGED <<client, function_handlers, orchVars, lmVars, stVars, cd_input>>

\* a tool is read from the wire
ToolFromWire ==
    /\ Len(cd_trace) < MaxSteps
    /\ Current.ty = "Tool"
    /\ Current.form = "wire"
    /\ LET r == DeserializeTool(Current.x)
       IN  cd_trace' = Append(cd_trace,
                              Step("deserialize", "Tool",
                                   IF r.ok THEN "value" ELSE "error", Current.x,
                                   IF r.ok THEN r.value ELSE r.error))
    /\ UNCHANGED <<client, function_handlers, orchVars, lmVars, stVars, cd_input>>

\* a function declaration is written to the wire
DeclarationToWire ==
    /\ Len(cd_trace) < MaxSteps
    /\ Current.ty = "FunctionDeclaration"
    /\ Current.form = "value"
    /\ cd_trace' = Append(cd_trace, Step("serialize", "FunctionDeclaration", "wire", Current.x,
                                         SerializeFunctionDeclaration(Current.x)))
    /\ UNCHANGED <<client, function_handlers, orchVars, lmVars, stVars, cd_input>>

-----------------------------------------------------------------------------
(* types.rs: GenerateContentResponse on the wire *)

\* Deserialize for Candidate and for the Content it holds; the Option fields
\* of Candidate other than finish_reason are not kept
DeserializeCandidate(json) ==
    IF ~IsObject(json) THEN Invalid("invalid type")
    ELSE IF ~IsObject(Field(json, "content")) THEN Invalid("missing field")
    ELSE IF Field(Field(json, "content"), "parts").j # "array" THEN Invalid("missing field")
    ELSE Struct("Candidate",
                Collect(<<Collect([k \in 1..Len(Field(Field(json, "content"), "parts").items) |->
                                     DeserializeContentPart(
                                         Field(Field(json, "content"), "parts").items[k])]),
                          IF StringField(Field(json, "content"), "role").ok
                             /\ StringField(Field(json, "content"), "role").value \notin Role
                          THEN Invalid("unknown variant")
                          ELSE StringField(Field(json, "content"), "role"),
                          OptionStringField(json, "finishReason")>>))

\* a u32 field of a struct
NumberField(json, key) ==
    IF Field(json, key).j = "number" THEN Ok(Field(json, key).n) ELSE Invalid("missing field")

\* a reader of GenerateContentResponse that would take every field but
\* `candidates` as optional
DeserializeGenerateContentResponseLenient(json) ==
    IF ~IsObject(json) \/ Field(json, "candidates") = Missing
    THEN Invalid("invalid type")
    ELSE Struct("GenerateContentResponse",
                Collect(<<Collect([i \in 1..Len(Field(json, "candidates").items) |->
                                     DeserializeCandidate(Field(json, "candidates").items[i])]),
                          Ok(<<1, 1>>), Ok("gemini"), Ok("resp")>>))

\* Deserialize for GenerateContentResponse and for UsageMetadata: `candidates`
\* has serde(default); usage_metadata (with its prompt_token_count and
\* total_token_count), model_version and response_id are required
DeserializeGenerateContentResponse(json) ==
    IF ~IsObject(json) THEN Invalid("invalid type")
    ELSE Struct("GenerateContentResponse",
                Collect(<<IF Field(json, "candidates") = Missing THEN Ok(<<>>)
                          ELSE IF Field(json, "candidates").j # "array"
                               THEN Invalid("invalid type")
                          ELSE Collect([i \in 1..Len(Field(json, "candidates").items) |->
                                          DeserializeCandidate(
                                              Field(json, "candidates").items[i])]),
                          IF ~IsObject(Field(json, "usageMetadata")) THEN Invalid("missing field")
                          ELSE Collect(<<NumberField(Field(json, "usageMetadata"),
                                                     "promptTokenCount"),
                                         NumberField(Field(json, "usageMetadata"),
                                                     "totalTokenCount")>>),
                          StringField(json, "modelVersion"),
                          StringField(json, "responseId")>>))

\* response bodies as the server writes them: one with the candidates only, and
\* one that also has the usage metadata, the model version and the response id
WireBodies ==
    [candidates_only |->
        JObject(<<Entry("candidates",
            JArray(<<JObject(<<Entry("content",
                JObject(<<Entry("role", JString("model")),
                          Entry("parts", JArray(<<JObject(<<Entry("text", JString("4"))>>)>>))>>))>>)>>))>>),
     complete |->
        JObject(<<Entry("candidates",
            JArray(<<JObject(<<Entry("content",
                JObject(<<Entry("role", JString("model")),
                          Entry("parts", JArray(<<JObject(<<Entry("text", JString("4"))>>)>>))>>)),
                               Entry("finishReason", JString("STOP"))>>)>>)),
                  Entry("usageMetadata", JObject(<<Entry("promptTokenCount", JNumber(1)),
                                                   Entry("totalTokenCount", JNumber(1))>>)),
                  Entry("modelVersion", JString("gemini")),
                  Entry("responseId", JString("resp"))>>)]

-----------------------------------------------------------------------------
(* The inputs of an exchange: handlers, the caller's request, model replies *)

Exchanges == {"e1", "e2"}

FnNames == {"f", "g"}

\* How a registered handler behaves (FunctionHandler is any Fn closure):
\*   "weather"   the handler of src/main.rs: Ok when the argument it needs is
\*               there (arguments "a1"), Err("Missing argument") otherwise;
\*   "normalize" rewrites its argument view and answers Ok with what it was given;
\*   "const"     always Ok("v1").
Behaviours == {"weather", "normalize", "const"}

\* One call handler(&mut arguments): the view the handler leaves behind and
\* what it returns
Handler(behaviour, arguments) ==
    CASE behaviour = "weather" ->
            [view |-> arguments,
             ret |-> IF arguments = "a1" THEN Ok("cloudy") ELSE Err("Missing argument")]
      [] behaviour = "normalize" ->
            [view |-> "normalized", ret |-> Ok(arguments)]
      [] behaviour = "const" ->
            [view |-> arguments, ret |-> Ok("v1")]

\* every registry over FnNames: HashMap<String, FunctionHandler>
Registries == UNION {[S -> Behaviours] : S \in SUBSET FnNames}

UserText(s) == Content(<<ContentPart(FALSE, Text(s), None)>>, "user")
ModelText(s) == Content(<<ContentPart(FALSE, Text(s), None)>>, "model")

\* the conversations a caller starts an exchange with
OriginalContents ==
    { <<UserText("2+2?")>>,
      <<UserText("hi"), ModelText("hello"), UserText("weather?")>> }

TextPart == ContentPart(FALSE, Text("4"), None)
CallF == ContentPart(FALSE, FunctionCall("f", "a1"), None)

\* the parts a reply's first candidate can start with: every variant
FirstParts ==
    { TextPart,
      ContentPart(TRUE, Text("thinking"), None),
      ContentPart(FALSE, InlineData("image/png", "AAAA"), None),
      ContentPart(FALSE, FileData("image/png", "gs://x"), None),
      ContentPart(FALSE, FunctionResponse("f", "v1"), None),
      ContentPart(FALSE, ExecutableCode("print(1)"), None),
      ContentPart(FALSE, CodeExecutionResult("1"), None),
      CallF,
      ContentPart(FALSE, FunctionCall("f", "a2"), None),
      ContentPart(FALSE, FunctionCall("g", "a1"), None),
      ContentPart(TRUE, FunctionCall("g", "a2"), Some("sig")) }

\* the candidate lists of a reply
CandidateLists ==
    {<<>>, <<Candidate(<<>>)>>, <<Candidate(<<>>), Candidate(<<CallF>>)>>}
    \cup {<<Candidate(<<p>>)>> : p \in FirstParts}
    \cup { <<Candidate(<<TextPart, CallF>>)>>,
           <<Candidate(<<TextPart>>), Candidate(<<CallF>>)>>,
           <<Candidate(<<CallF, TextPart>>)>> }

Replies == {GenerateContentResponse(c, "resp") : c \in CandidateLists}

\* what can come back for one POST of generate_content
HttpReplies ==
    {NetworkError, BrokenBody(200), BrokenBody(500),
     Body(429, "quota", None), Body(500, "oops", None), Body(200, "<html>", None)}
    \cup {Body(200, "json", Some(r)) : r \in Replies}
    \cup {Body(200, body,
                IF DeserializeGenerateContentResponse(WireBodies[body]).ok
                THEN Some(DeserializeGenerateContentResponse(WireBodies[body]).value)
                ELSE None) : body \in DOMAIN WireBodies}

ModelName == "gemini-2.0-flash"

-----------------------------------------------------------------------------
(* lib.rs: GeminiClient::generate_content_with_function_calling *)

\* FirstPart looking for a function call in every part of every candidate: the
\* first one found, and the leading part when there is none
FirstPartScanAll(resp) ==
    LET at == UNION {{<<j, i>> : i \in {k \in 1..Len(resp.candidates[j].content.parts) :
                        resp.candidates[j].content.parts[k].data.tag = "FunctionCall"}} :
                     j \in 1..Len(resp.candidates)}
        first == CHOOSE p \in at : \A q \in at :
                     p[1] < q[1] \/ (p[1] = q[1] /\ p[2] <= q[2])
    IN IF at # {} THEN Some(resp.candidates[first[1]].content.parts[first[2]])
       ELSE IF resp.candidates = <<>> THEN None
       ELSE IF resp.candidates[1].content.parts = <<>> THEN None
       ELSE Some(resp.candidates[1].content.parts[1])

\* FirstPart with parts.last() in place of parts.first()
FirstPartLast(resp) ==
    IF resp.candidates = <<>> THEN None
    ELSE IF resp.candidates[1].content.parts = <<>> THEN None
    ELSE Some(Last(resp.candidates[1].content.parts))

\* response.candidates.first() and then candidate.content.parts.first()
FirstPart(resp) ==
    IF resp.candidates = <<>> THEN None
    ELSE IF resp.candidates[1].content.parts = <<>> THEN None
    ELSE Some(resp.candidates[1].content.parts[1])

\* Decision that returns the reply whatever its first part is
DecisionNeverInvokes(resp, handlers) == "return"

\* Decision with the unknown-function arm falling through to return Ok(response)
DecisionUnknownReturns(resp, handlers) ==
    IF FirstPart(resp) = None THEN "return"
    ELSE IF Unwrap(FirstPart(resp)).data.tag # "FunctionCall" THEN "return"
    ELSE IF Unwrap(FirstPart(resp)).data.name \in DOMAIN handlers THEN "invoke"
    ELSE "return"

\* the match on &part.data: what the loop does with a reply
\*   "return"  return Ok(response)
\*   "invoke"  a registered handler is to be called
\*   "unknown" return Err(FunctionExecution("Unknown function: ..."))
Decision(resp, handlers) ==
    IF FirstPart(resp) = None THEN "return"
    ELSE IF Unwrap(FirstPart(resp)).data.tag # "FunctionCall" THEN "return"
    ELSE IF Unwrap(FirstPart(resp)).data.name \in DOMAIN handlers THEN "invoke"
    ELSE "unknown"

\* PushTurns with the two pushes in the other order
PushTurnsSwapped(contents, function_call, ret) ==
    contents
    \o << Content(<<FromContentData(FunctionResponse(function_call.name, ret))>>, "tool"),
          Content(<<FromContentData(FunctionCall(function_call.name,
                                                 function_call.arguments))>>, "user") >>

\* PushTurns with one push: a tool turn that holds the call and the response
PushTurnsOneTurn(contents, function_call, ret) ==
    contents
    \o << Content(<<FromContentData(FunctionCall(function_call.name,
                                                 function_call.arguments)),
                    FromContentData(FunctionResponse(function_call.name, ret))>>, "tool") >>

\* PushTurns with a function response that does not name its function
PushTurnsUnnamed(contents, function_call, ret) ==
    contents
    \o << Content(<<FromContentData(FunctionCall(function_call.name,
                                                 function_call.arguments))>>, "user"),
          Content(<<FromContentData(FunctionResponse("", ret))>>, "tool") >>

\* PushTurns that keeps only the turns of the latest round
PushTurnsReplace(contents, function_call, ret) ==
    << Content(<<FromContentData(FunctionCall(function_call.name,
                                              function_call.arguments))>>, "user"),
       Content(<<FromContentData(FunctionResponse(function_call.name, ret))>>, "tool") >>

\* the two request.contents.push of the Ok(result) arm
PushTurns(contents, function_call, ret) ==
    contents
    \o << Content(<<FromContentData(FunctionCall(function_call.name,
                                                 function_call.arguments))>>, "user"),
          Content(<<FromContentData(FunctionResponse(function_call.name, ret))>>, "tool") >>

\* the error of the else arm of function_handlers.get
UnknownFunction(name) == FunctionExecution(<<"Unknown function: ", name>>)

\* HandlerFailed with the handler's string wrapped by format!
HandlerFailedWrapped(e) == FunctionExecution(<<"Handler failed: ", e>>)

\* the error of the Err(e) arm: the handler's own string
HandlerFailed(e) == FunctionExecution(<<e>>)

\* top of the loop: self.generate_content(model, &request) posts the request
Post(e) ==
    /\ pc[e] = "AwaitingModel"
    /\ Len(sent[e]) < MaxCalls
    /\ sent' = [sent EXCEPT ![e] =
                  Append(@, [url |-> GenerateContentUrl(client, ModelName),
                             body |-> request[e]])]
    /\ pc' = [pc EXCEPT ![e] = "InFlight"]
    /\ UNCHANGED <<client, function_handlers, request, response, received, invoked,
                   result, lmVars, stVars, cdVars>>

\* AwaitOutcome with a retry of the failed call
AwaitOutcomeRetry(r) == IF r.ok THEN "Inspecting" ELSE "AwaitingModel"

\* the `?` after generate_content(...).await: where the loop goes next
AwaitOutcome(r) == IF r.ok THEN "Inspecting" ELSE "Failed"

\* generate_content(...).await? resumes with the outcome of the call
Reply(e) ==
    /\ pc[e] = "InFlight"
    /\ \E http \in HttpReplies :
         LET r == generate_content(http) IN
         /\ received' = [received EXCEPT ![e] = Append(@, [http |-> http, ret |-> r])]
         /\ pc' = [pc EXCEPT ![e] = AwaitOutcome(r)]
         /\ IF r.ok
            THEN /\ response' = [response EXCEPT ![e] = Some(r.value)]
                 /\ UNCHANGED result
            ELSE /\ result' = [result EXCEPT ![e] = Some(Err(r.error))]
                 /\ UNCHANGED response
    /\ UNCHANGED <<client, function_handlers, request, sent, invoked, lmVars, stVars, cdVars>>

\* Inspect that returns the reply of the first transport call
InspectReturnsFirst(e) ==
    /\ pc[e] = "Inspecting"
    /\ LET resp == Unwrap(response[e])
           d == Decision(resp, function_handlers)
       IN CASE d = "return" ->
                 /\ result' = [result EXCEPT ![e] = Some(Ok(received[e][1].ret.value))]
                 /\ pc' = [pc EXCEPT ![e] = "Done"]
            [] d = "unknown" ->
                 /\ result' = [result EXCEPT ![e] =
                        Some(Err(UnknownFunction(Unwrap(FirstPart(resp)).data.name)))]
                 /\ pc' = [pc EXCEPT ![e] = "Failed"]
            [] d = "invoke" ->
                 /\ pc' = [pc EXCEPT ![e] = "Invoking"]
                 /\ UNCHANGED result
    /\ UNCHANGED <<client, function_handlers, request, response, sent, received,
                   invoked, lmVars, stVars, cdVars>>

\* the nested if-let / match on the first part of the first candidate
Inspect(e) ==
    /\ pc[e] = "Inspecting"
    /\ LET resp == Unwrap(response[e])
           d == Decision(resp, function_handlers)
       IN CASE d = "return" ->
                 /\ result' = [result EXCEPT ![e] = Some(Ok(resp))]
                 /\ pc' = [pc EXCEPT ![e] = "Done"]
            [] d = "unknown" ->
                 /\ result' = [result EXCEPT ![e] =
                        Some(Err(UnknownFunction(Unwrap(FirstPart(resp)).data.name)))]
                 /\ pc' = [pc EXCEPT ![e] = "Failed"]
            [] d = "invoke" ->
                 /\ pc' = [pc EXCEPT ![e] = "Invoking"]
                 /\ UNCHANGED result
    /\ UNCHANGED <<client, function_handlers, request, response, sent, received,
                   invoked, lmVars, stVars, cdVars>>

\* Invoke with the two turns pushed onto the request of every exchange
InvokeShared(e) ==
    /\ pc[e] = "Invoking"
    /\ LET function_call == Unwrap(FirstPart(Unwrap(response[e]))).data
           out == Handler(function_handlers[function_call.name], function_call.arguments)
       IN /\ invoked' = [invoked EXCEPT ![e] =
                 Append(@, [name |-> function_call.name,
                            arguments |-> function_call.arguments,
                            view |-> out.view,
                            ret |-> out.ret,
                            call |-> Len(sent[e])])]
          /\ IF out.ret.ok
             THEN /\ request' = [o \in Exchanges |->
                                    [request[o] EXCEPT !.contents =
                                        PushTurns(@, function_call, out.ret.value)]]
                  /\ response' = [response EXCEPT ![e] = None]
                  /\ pc' = [pc EXCEPT ![e] = "AwaitingModel"]
                  /\ UNCHANGED result
             ELSE /\ result' = [result EXCEPT ![e] =
                                    Some(Err(HandlerFailed(out.ret.error)))]
                  /\ pc' = [pc EXCEPT ![e] = "Failed"]
                  /\ UNCHANGED <<request, response>>
    /\ UNCHANGED <<client, function_handlers, sent, received, lmVars, stVars, cdVars>>

\* Invoke with the handler given the arguments themselves, not a clone
InvokeInPlace(e) ==
    /\ pc[e] = "Invoking"
    /\ LET function_call == Unwrap(FirstPart(Unwrap(response[e]))).data
           out == Handler(function_handlers[function_call.name], function_call.arguments)
       IN /\ invoked' = [invoked EXCEPT ![e] =
                 Append(@, [name |-> function_call.name,
                            arguments |-> function_call.arguments,
                            view |-> out.view,
                            ret |-> out.ret,
                            call |-> Len(sent[e])])]
          /\ IF out.ret.ok
             THEN /\ request' = [request EXCEPT ![e].contents =
                                    PushTurns(@, [function_call EXCEPT !.arguments = out.view],
                                              out.ret.value)]
                  /\ response' = [response EXCEPT ![e] = None]
                  /\ pc' = [pc EXCEPT ![e] = "AwaitingModel"]
                  /\ UNCHANGED result
             ELSE /\ result' = [result EXCEPT ![e] =
                                    Some(Err(HandlerFailed(out.ret.error)))]
                  /\ pc' = [pc EXCEPT ![e] = "Failed"]
                  /\ UNCHANGED <<request, response>>
    /\ UNCHANGED <<client, function_handlers, sent, received, lmVars, stVars, cdVars>>

\* Invoke that calls the handler a second time and pushes the second result
InvokeTwice(e) ==
    /\ pc[e] = "Invoking"
    /\ LET function_call == Unwrap(FirstPart(Unwrap(response[e]))).data
           out == Handler(function_handlers[function_call.name], function_call.arguments)
           entry == [name |-> function_call.name,
                     arguments |-> function_call.arguments,
                     view |-> out.view,
                     ret |-> out.ret,
                     call |-> Len(sent[e])]
       IN /\ invoked' = [invoked EXCEPT ![e] = @ \o <<entry, entry>>]
          /\ IF out.ret.ok
             THEN /\ request' = [request EXCEPT ![e].contents =
                                    PushTurns(@, function_call, out.ret.value)]
                  /\ response' = [response EXCEPT ![e] = None]
                  /\ pc' = [pc EXCEPT ![e] = "AwaitingModel"]
                  /\ UNCHANGED result
             ELSE /\ result' = [result EXCEPT ![e] =
                                    Some(Err(HandlerFailed(out.ret.error)))]
                  /\ pc' = [pc EXCEPT ![e] = "Failed"]
                  /\ UNCHANGED <<request, response>>
    /\ UNCHANGED <<client, function_handlers, sent, received, lmVars, stVars, cdVars>>

\* match handler(&mut function_call.arguments.clone())
Invoke(e) ==
    /\ pc[e] = "Invoking"
    /\ LET function_call == Unwrap(FirstPart(Unwrap(response[e]))).data
           out == Handler(function_handlers[function_call.name], function_call.arguments)
       IN /\ invoked' = [invoked EXCEPT ![e] =
                 Append(@, [name |-> function_call.name,
                            arguments |-> function_call.arguments,
                            view |-> out.view,
                            ret |-> out.ret,
                            call |-> Len(sent[e])])]
          /\ IF out.ret.ok
             THEN /\ request' = [request EXCEPT ![e].contents =
                                    PushTurns(@, function_call, out.ret.value)]
                  /\ response' = [response EXCEPT ![e] = None]
                  /\ pc' = [pc EXCEPT ![e] = "AwaitingModel"]
                  /\ UNCHANGED result
             ELSE /\ result' = [result EXCEPT ![e] =
                                    Some(Err(HandlerFailed(out.ret.error)))]
                  /\ pc' = [pc EXCEPT ![e] = "Failed"]
                  /\ UNCHANGED <<request, response>>
    /\ UNCHANGED <<client, function_handlers, sent, received, lmVars, stVars, cdVars>>

-----------------------------------------------------------------------------
(* lib.rs: GeminiClient::list_models *)

\* the pattern of model.name.replace("models/", "")
Prefix == <<"m", "o", "d", "e", "l", "s", "/">>

\* the names of the catalogue entries, one character per element:
\* "models/a", "tunedModels/a", "a/models/b", "models/models/a", "momodels/dels/"
ModelNames ==
    { Prefix \o <<"a">>,
      <<"t", "u", "n", "e", "d", "M", "o", "d", "e", "l", "s", "/", "a">>,
      <<"a", "/">> \o Prefix \o <<"b">>,
      Prefix \o Prefix \o <<"a">>,
      <<"m", "o">> \o Prefix \o <<"d", "e", "l", "s", "/">> }

\* str::replace(from, to): every non-overlapping match of `from`, left to right
RECURSIVE Replace(_, _, _)
Replace(s, from, to) ==
    IF Len(s) < Len(from) THEN s
    ELSE IF SubSeq(s, 1, Len(from)) = from
         THEN to \o Replace(SubSeq(s, Len(from) + 1, Len(s)), from, to)
         ELSE <<s[1]>> \o Replace(Tail(s), from, to)

\* types::Model as serde builds it from a catalogue entry: base_model_id is
\* skip_deserializing, so it starts as String::default()
DeserializeModel(entry) ==
    [name |-> entry.name, base_model_id |-> <<>>, display_name |-> entry.display_name]

\* the closure of the final map: model.base_model_id = model.name.replace("models/", "")
SetBaseModelId(model) ==
    [model EXCEPT !.base_model_id = Replace(model.name, Prefix, <<>>)]

\* models.into_iter().map(..).collect()
SetBaseModelIds(models) == [i \in 1..Len(models) |-> SetBaseModelId(models[i])]

\* Vec<types::Model> as serde builds it from the entries of a page
DeserializeModels(entries) == [i \in 1..Len(entries) |-> DeserializeModel(entries[i])]

\* the catalogues a server can hold: entry i has display name i
Catalogues ==
    UNION { {[i \in 1..n |-> [name |-> names[i], display_name |-> i]] :
                names \in [1..n -> ModelNames]} : n \in 0..MaxModels }

Min(a, b) == IF a < b THEN a ELSE b

\* the body of GET /models[&pageToken=t]: {models: [...], nextPageToken?: ...};
\* the token of a page is its number
ServePage(srv, page_token) ==
    LET page == IF page_token = None THEN 1 ELSE Unwrap(page_token)
        from == (page - 1) * srv.page_len + 1
        to == Min(page * srv.page_len, Len(srv.catalogue))
    IN [models |-> DeserializeModels(SubSeq(srv.catalogue, from, to)),
        next_page_token |-> IF to < Len(srv.catalogue) THEN Some(page + 1) ELSE None]

\* what can come back for one GET of list_models
ListHttpReplies(srv, page_token) ==
    {NetworkError, BrokenBody(200), BrokenBody(500),
     Body(429, "quota", None), Body(200, "<html>", None),
     Body(200, "json", Some(ServePage(srv, page_token)))}

\* the request before the loop: only its status is looked at
ProbeOutcome(http) ==
    IF http.net = "error" THEN Err(Http("request"))
    ELSE IF ~IsSuccess(http.status) THEN handle_error(http)
    ELSE Ok("probed")

\* one request of the loop, up to `let response: Response = response.json().await?`
PageOutcome(http) ==
    IF http.net = "error" THEN Err(Http("request"))
    ELSE IF ~IsSuccess(http.status)
         THEN IF ~http.readable THEN Err(Http("body")) ELSE Err(Api(<<http.text>>))
    ELSE IF ~http.readable THEN Err(Http("body"))
    ELSE IF http.parsed = None THEN Err(Http("decode"))
    ELSE Ok(Unwrap(http.parsed))

\* the GET URL: the query of the request
ListUrl(c, page_token) ==
    [base |-> <<c.api_url, "/models?key=", c.api_key, "&pageSize=1000">>,
     page_token |-> page_token]

\* Extend as an assignment: models = response.models
ExtendReplace(models, page_models) == page_models

\* models.extend(response.models)
Extend(models, page_models) == models \o page_models

\* let response = self.http_client.get(&url).send().await?; and the status check
ListProbe ==
    /\ lm_pc = "probe"
    /\ \E http \in ListHttpReplies(server, None) :
         LET r == ProbeOutcome(http) IN
         /\ lm_requests' = Append(lm_requests, ListUrl(client, None))
         /\ lm_replies' = Append(lm_replies, http)
         /\ IF r.ok
            THEN /\ lm_pc' = "loop"
                 /\ lm_models' = <<>>
                 /\ lm_next_page_token' = None
                 /\ UNCHANGED lm_result
            ELSE /\ lm_pc' = "failed"
                 /\ lm_result' = Some(Err(r.error))
                 /\ UNCHANGED <<lm_models, lm_next_page_token>>
    /\ UNCHANGED <<client, function_handlers, orchVars, stVars, cdVars, server>>

\* one turn of the loop; on the last page, the final map and return
ListPage ==
    /\ lm_pc = "loop"
    /\ \E http \in ListHttpReplies(server, lm_next_page_token) :
         LET r == PageOutcome(http) IN
         /\ lm_requests' = Append(lm_requests, ListUrl(client, lm_next_page_token))
         /\ lm_replies' = Append(lm_replies, http)
         /\ IF r.ok
            THEN /\ lm_models' = Extend(lm_models, r.value.models)
                 /\ lm_next_page_token' = r.value.next_page_token
                 /\ IF r.value.next_page_token = None
                    THEN /\ lm_pc' = "done"
                         /\ lm_result' = Some(Ok(SetBaseModelIds(lm_models')))
                    ELSE /\ lm_pc' = "loop"
                         /\ UNCHANGED lm_result
            ELSE /\ lm_pc' = "failed"
                 /\ lm_result' = Some(Err(r.error))
                 /\ UNCHANGED <<lm_models, lm_next_page_token>>
    /\ UNCHANGED <<client, function_handlers, orchVars, stVars, cdVars, server>>

-----------------------------------------------------------------------------
(* lib.rs: GeminiClient::stream_content *)

\* the most events the EventSource delivers in the model
MaxEvents == 5

\* GeminiError::EventSource(reqwest_eventsource::Error)
EventSource(kind) == [variant |-> "EventSource", kind |-> kind, message |-> <<>>]

\* the replies a message event can carry
StreamReplies ==
    { GenerateContentResponse(<<Candidate(<<TextPart>>)>>, "chunk"),
      GenerateContentResponse(<<>>, "chunk") }

\* reqwest_eventsource::Event
Open == [type |-> "Open"]
Message(data, parsed) == [type |-> "Message", data |-> data, parsed |-> parsed]
\* reqwest_eventsource::Error, as the Err(e) of stream.next()
StreamEnded == [type |-> "Error", error |-> "StreamEnded"]
Transport == [type |-> "Error", error |-> "Transport"]
InvalidContentType(content_type, resp) ==
    [type |-> "Error", error |-> "InvalidContentType",
     content_type |-> content_type, response |-> resp]
InvalidStatusCode(code, resp) ==
    [type |-> "Error", error |-> "InvalidStatusCode", code |-> code, response |-> resp]

\* the responses an Invalid* error hands over
RejectedResponses(status) == {BrokenBody(status), Body(status, "<html>", None)}

\* What stream.next() can return and the state the EventSource is in afterwards:
\* while connecting, the response opens the stream, is refused for its content
\* type or status (the EventSource closes itself) or fails in transit (the
\* EventSource reconnects); while open, a message arrives, the transfer fails
\* (reconnect) or the server ends the stream (reconnect, unless closed).
EventSourceNext(state) ==
    IF state = "connecting"
    THEN {[event |-> Open, next |-> "open"], [event |-> Transport, next |-> "connecting"]}
         \cup {[event |-> InvalidContentType("text/html", r), next |-> "closed"] :
                  r \in RejectedResponses(200)}
         \cup {[event |-> InvalidStatusCode(c, r), next |-> "closed"] :
                  c \in {429}, r \in RejectedResponses(429)}
    ELSE {[event |-> Message("json", Some(r)), next |-> "open"] : r \in StreamReplies}
         \cup {[event |-> Message("[DONE]", None), next |-> "open"],
               [event |-> Transport, next |-> "connecting"],
               [event |-> StreamEnded, next |-> "connecting"]}

\* serde_json::from_str::<GenerateContentResponse>(&event.data).map_err(Into::into)
FromStr(event) ==
    IF event.parsed = None
    THEN Err(Json(<<"expected value">>))
    ELSE Ok(Unwrap(event.parsed))

\* StreamItems with StreamEnded falling into the `_ => yield Err(e.into())` arm
StreamItemsNoEndArm(event) ==
    IF event.type = "Open" THEN <<>>
    ELSE IF event.type = "Message" THEN <<FromStr(event)>>
    ELSE IF event.error = "InvalidContentType"
         THEN IF ~event.response.readable THEN <<Err(Http("body"))>>
              ELSE <<Err(Api(<<"Invalid content type ", event.content_type, ": ",
                               event.response.text>>))>>
    ELSE IF event.error = "InvalidStatusCode"
         THEN IF ~event.response.readable THEN <<Err(Http("body"))>>
              ELSE <<Err(Api(<<"Invalid status code ", StatusText(event.code), ": ",
                               event.response.text>>))>>
    ELSE <<Err(EventSource(event.error))>>

\* the items one turn of the while-let loop yields for `event`
StreamItems(event) ==
    IF event.type = "Open" THEN <<>>
    ELSE IF event.type = "Message" THEN <<FromStr(event)>>
    ELSE IF event.error = "StreamEnded" THEN <<>>
    ELSE IF event.error = "InvalidContentType"
         THEN IF ~event.response.readable THEN <<Err(Http("body"))>>
              ELSE <<Err(Api(<<"Invalid content type ", event.content_type, ": ",
                               event.response.text>>))>>
    ELSE IF event.error = "InvalidStatusCode"
         THEN IF ~event.response.readable THEN <<Err(Http("body"))>>
              ELSE <<Err(Api(<<"Invalid status code ", StatusText(event.code), ": ",
                               event.response.text>>))>>
    ELSE <<Err(EventSource(event.error))>>

\* the EventSource after the turn: stream.close() on StreamEnded
StreamClose(event, next) ==
    IF event.type = "Error" /\ event.error = "StreamEnded" THEN "closed" ELSE next

\* StreamAfter that also ends the stream on a message that does not parse
StreamAfterParseErrorEnds(event) ==
    IF \/ /\ event.type = "Error"
          /\ event.error \in {"InvalidContentType", "InvalidStatusCode"}
          /\ ~event.response.readable
       \/ /\ event.type = "Message"
          /\ event.parsed = None
    THEN "done"
    ELSE "streaming"

\* the returned stream after the turn: the ? on response.text().await yields
\* the error and ends the stream
StreamAfter(event) ==
    IF /\ event.type = "Error"
       /\ event.error \in {"InvalidContentType", "InvalidStatusCode"}
       /\ ~event.response.readable
    THEN "done"
    ELSE "streaming"

\* one turn of `while let Some(event) = stream.next().await`
StreamNext ==
    /\ st_pc = "streaming"
    /\ es # "closed"
    /\ Len(st_events) < MaxEvents
    /\ \E x \in EventSourceNext(es) :
         /\ st_events' = Append(st_events, x.event)
         /\ st_items' = st_items \o
               [i \in 1..Len(StreamItems(x.event)) |->
                   [event |-> Len(st_events) + 1, item |-> StreamItems(x.event)[i]]]
         /\ es' = StreamClose(x.event, x.next)
         /\ st_pc' = StreamAfter(x.event)
    /\ UNCHANGED <<client, function_handlers, orchVars, lmVars, cdVars>>

\* stream.next() returns None on a closed EventSource: the loop and the stream end
StreamEnd ==
    /\ st_pc = "streaming"
    /\ es = "closed"
    /\ st_pc' = "done"
    /\ UNCHANGED <<client, function_handlers, orchVars, lmVars, cdVars, es, st_events, st_items>>

-----------------------------------------------------------------------------
(* Specifications *)

Clients == {[api_key |-> "key", api_url |-> "https://generativelanguage.googleapis.com/v1beta"]}

\* no exchange started
OrchIdle ==
    /\ pc = [e \in Exchanges |-> "idle"]
    /\ request = [e \in Exchanges |-> GenerateContentRequest(<<>>)]
    /\ response = [e \in Exchanges |-> None]
    /\ sent = [e \in Exchanges |-> <<>>]
    /\ received = [e \in Exchanges |-> <<>>]
    /\ invoked = [e \in Exchanges |-> <<>>]
    /\ result = [e \in Exchanges |-> None]

\* list_models not called
ListIdle ==
    /\ server = [catalogue |-> <<>>, page_len |-> 1]
    /\ lm_pc = "idle"
    /\ lm_models = <<>>
    /\ lm_next_page_token = None
    /\ lm_requests = <<>>
    /\ lm_replies = <<>>
    /\ lm_result = None

\* stream_content not called
StreamIdle ==
    /\ es = "closed"
    /\ st_pc = "idle"
    /\ st_events = <<>>
    /\ st_items = <<>>

\* no value built, written or read
CodecIdle ==
    /\ cd_input = [ty |-> "none", form |-> "none"]
    /\ cd_trace = <<>>

\* one exchange: generate_content_with_function_calling(model, request, handlers)
Init ==
    /\ client \in Clients
    /\ function_handlers \in Registries
    /\ \E c \in OriginalContents :
         \E declared \in {<<>>, <<ToolFunctionDeclaration(
                                      <<FunctionDeclaration("f", "does f", None, None),
                                        FunctionDeclaration("g", "does g", None, None)>>)>>} :
            request = [e \in Exchanges |->
                         IF e = "e1"
                         THEN [GenerateContentRequest(c) EXCEPT
                                  !.tools = declared,
                                  !.system_instruction =
                                      IF declared = <<>> THEN None
                                      ELSE Some(Content(<<FromContentData(Text("be brief"))>>,
                                                        "system"))]
                         ELSE GenerateContentRequest(<<>>)]
    /\ pc = [e \in Exchanges |-> IF e = "e1" THEN "AwaitingModel" ELSE "idle"]
    /\ response = [e \in Exchanges |-> None]
    /\ sent = [e \in Exchanges |-> <<>>]
    /\ received = [e \in Exchanges |-> <<>>]
    /\ invoked = [e \in Exchanges |-> <<>>]
    /\ result = [e \in Exchanges |-> None]
    /\ ListIdle
    /\ StreamIdle
    /\ CodecIdle

Next ==
    \/ \E e \in Exchanges : Post(e)
    \/ \E e \in Exchanges : Reply(e)
    \/ \E e \in Exchanges : Inspect(e)
    \/ \E e \in Exchanges : Invoke(e)

Spec == Init /\ [][Next]_vars

\* one call of list_models against a server
InitList ==
    /\ client \in Clients
    /\ function_handlers = <<>>
    /\ OrchIdle
    /\ server \in [catalogue : Catalogues, page_len : 1..MaxPageLen]
    /\ lm_pc = "probe"
    /\ lm_models = <<>>
    /\ lm_next_page_token = None
    /\ lm_requests = <<>>
    /\ lm_replies = <<>>
    /\ lm_result = None
    /\ StreamIdle
    /\ CodecIdle

NextList == ListProbe \/ ListPage

SpecList == InitList /\ [][NextList]_vars

\* one stream returned by stream_content, polled to its end
InitStream ==
    /\ client \in Clients
    /\ function_handlers = <<>>
    /\ OrchIdle
    /\ ListIdle
    /\ es = "connecting"
    /\ st_pc = "streaming"
    /\ st_events = <<>>
    /\ st_items = <<>>
    /\ CodecIdle

NextStream == StreamNext \/ StreamEnd

SpecStream == InitStream /\ [][NextStream]_vars

\* what a program starts from when it builds, writes and reads the serde types
CodecInputs ==
    {[ty |-> "ContentPart", form |-> "call", x |-> c] : c \in ConstructorCalls}
    \cup {[ty |-> "ContentPart", form |-> "value", x |-> p] : p \in ContentParts}
    \cup {[ty |-> "ContentPart", form |-> "wire", x |-> w] : w \in PartWires}
    \cup {[ty |-> "Tool", form |-> "value", x |-> tool] : tool \in Tools}
    \cup {[ty |-> "Tool", form |-> "wire", x |-> w] : w \in ToolWires}
    \cup {[ty |-> "FunctionDeclaration", form |-> "value", x |-> d] : d \in FunctionDeclarations}

\* the exchange with its future polled to the end: a step of the loop that can
\* be taken is taken
SpecFair == Init /\ [][Next]_vars /\ WF_vars(Next)

\* one exchange whose every handler returns Ok: no "weather" in the registry
InitLoop ==
    /\ client \in Clients
    /\ function_handlers \in {r \in Registries :
                                 /\ DOMAIN r # {}
                                 /\ \A n \in DOMAIN r : r[n] \in {"normalize", "const"}}
    /\ \E c \in OriginalContents :
         request = [e \in Exchanges |->
                      GenerateContentRequest(IF e = "e1" THEN c ELSE <<>>)]
    /\ pc = [e \in Exchanges |-> IF e = "e1" THEN "AwaitingModel" ELSE "idle"]
    /\ response = [e \in Exchanges |-> None]
    /\ sent = [e \in Exchanges |-> <<>>]
    /\ received = [e \in Exchanges |-> <<>>]
    /\ invoked = [e \in Exchanges |-> <<>>]
    /\ result = [e \in Exchanges |-> None]
    /\ ListIdle
    /\ StreamIdle
    /\ CodecIdle

\* the steps of the loop against a transport that never fails and a model whose
\* every reply starts with a call of a registered function
NextLoop ==
    \E e \in Exchanges :
        \/ Post(e)
        \/ /\ Reply(e)
           /\ Last(received'[e]).ret.ok
           /\ Decision(Last(received'[e]).ret.value, function_handlers) = "invoke"
        \/ Inspect(e)
        \/ Invoke(e)

\* the future of generate_content_with_function_calling is polled to the end:
\* a step of the loop that can be taken is taken
SpecLoop == InitLoop /\ [][NextLoop]_vars /\ WF_vars(NextLoop)

\* two exchanges of one program: they share the client and the registry, and
\* each owns its request
InitConcurrent ==
    /\ client \in Clients
    /\ function_handlers \in {[f |-> "weather"], [f |-> "normalize", g |-> "const"]}
    /\ request = [e \in Exchanges |->
                    GenerateContentRequest(
                        IF e = "e1" THEN <<UserText("2+2?")>>
                        ELSE <<UserText("hi"), ModelText("hello"), UserText("weather?")>>)]
    /\ pc = [e \in Exchanges |-> "AwaitingModel"]
    /\ response = [e \in Exchanges |-> None]
    /\ sent = [e \in Exchanges |-> <<>>]
    /\ received = [e \in Exchanges |-> <<>>]
    /\ invoked = [e \in Exchanges |-> <<>>]
    /\ result = [e \in Exchanges |-> None]
    /\ ListIdle
    /\ StreamIdle
    /\ CodecIdle

\* the steps of the two exchanges in any order; the server answers with a
\* network error, a text, or a call of f or g
NextConcurrent ==
    \E e \in Exchanges :
        \/ Post(e)
        \/ /\ Reply(e)
           /\ Last(received'[e]).http \in
                 {NetworkError}
                 \cup {Body(200, "json", Some(GenerateContentResponse(<<Candidate(<<p>>)>>, "resp"))) :
                         p \in {TextPart, CallF,
                                ContentPart(FALSE, FunctionCall("f", "a2"), None),
                                ContentPart(TRUE, FunctionCall("g", "a2"), Some("sig"))}}
        \/ Inspect(e)
        \/ Invoke(e)

SpecConcurrent == InitConcurrent /\ [][NextConcurrent]_vars

\* a value is built, written and read back
InitCodec ==
    /\ client \in Clients
    /\ function_handlers = <<>>
    /\ OrchIdle
    /\ ListIdle
    /\ StreamIdle
    /\ cd_input \in CodecInputs
    /\ cd_trace = <<>>

NextCodec ==
    \/ New
    \/ SerializePart
    \/ DeserializePart
    \/ ToolToWire
    \/ ToolFromWire
    \/ DeclarationToWire

SpecCodec == InitCodec /\ [][NextCodec]_vars

-----------------------------------------------------------------------------
(* Properties of generate_content_with_function_calling *)

\* the outcome of transport call k of exchange e
Outcome(e, k) == received[e][k].ret

\* the reply has a first candidate and that candidate a first part
HasLeadingPart(resp) ==
    Len(resp.candidates) >= 1 /\ Len(resp.candidates[1].content.parts) >= 1
LeadingPart(resp) == resp.candidates[1].content.parts[1]
LeadsWith(resp, tag) == HasLeadingPart(resp) /\ LeadingPart(resp).data.tag = tag

\* transport call k of exchange e returned a reply that leads with a function call
CallAt(e, k) ==
    /\ k \in 1..Len(received[e])
    /\ Outcome(e, k).ok
    /\ LeadsWith(Outcome(e, k).value, "FunctionCall")
CalledAt(e, k) == LeadingPart(Outcome(e, k).value).data

\* the handler invocations made for the reply of transport call k
InvokedFor(e, k) == {i \in 1..Len(invoked[e]) : invoked[e][i].call = k}

\* the first reply leads with a call to a registered f whose handler answers
\* Ok(v), and the second reply leads with text
OneRoundTrip(e) ==
    /\ Len(received[e]) >= 2
    /\ CallAt(e, 1)
    /\ CalledAt(e, 1).name \in DOMAIN function_handlers
    /\ Handler(function_handlers[CalledAt(e, 1).name], CalledAt(e, 1).arguments).ret.ok
    /\ Outcome(e, 2).ok
    /\ LeadsWith(Outcome(e, 2).value, "Text")

\* C1: when the first reply leads with a call to a registered function f whose
\* handler returns Ok(v) and the second reply leads with text, exactly two
\* transport calls are made, and the second request's contents are the original
\* contents followed by a user turn holding only that function call and then a
\* tool turn holding only the function response named f with content v.
C1_OneRoundTripRequest ==
    \A e \in Exchanges :
        OneRoundTrip(e) =>
            LET f == CalledAt(e, 1)
                v == Handler(function_handlers[f.name], f.arguments).ret.value
                original == sent[e][1].body.contents
                second == sent[e][2].body.contents
                n == Len(original)
            IN /\ Len(sent[e]) = 2
               /\ pc[e] \in {"Inspecting", "Done"}
               /\ Len(second) = n + 2
               /\ SubSeq(second, 1, n) = original
               /\ second[n + 1].role = "user"
               /\ Len(second[n + 1].parts) = 1
               /\ second[n + 1].parts[1].data = f
               /\ second[n + 2].role = "tool"
               /\ Len(second[n + 2].parts) = 1
               /\ second[n + 2].parts[1].data = FunctionResponse(f.name, v)

C1_Witness == \E e \in Exchanges : OneRoundTrip(e) /\ pc[e] = "Done"

\* C2: whatever the registry and the request, when the first reply leads with a
\* text part the exchange returns that reply after exactly one transport call
\* and no handler is invoked.
C2_TextReturnsAfterOneCall ==
    \A e \in Exchanges :
        (/\ Len(received[e]) >= 1
         /\ Outcome(e, 1).ok
         /\ LeadsWith(Outcome(e, 1).value, "Text"))
        => /\ Len(sent[e]) = 1
           /\ invoked[e] = <<>>
           /\ pc[e] \in {"Inspecting", "Done"}
           /\ pc[e] = "Done" => result[e] = Some(Ok(Outcome(e, 1).value))

C2_Witness ==
    \E e \in Exchanges :
        /\ pc[e] = "Done"
        /\ Len(received[e]) = 1
        /\ LeadsWith(Outcome(e, 1).value, "Text")
        /\ Len(Outcome(e, 1).value.candidates[1].content.parts) > 1
        /\ DOMAIN function_handlers = FnNames

\* C3: a reply that leads with a call to a name that is no key of the registry
\* ends the exchange with a FunctionExecution error naming that function; no
\* handler is invoked for that reply, no turn is appended and no further
\* transport call is made.
C3_UnknownFunctionIsFatal ==
    \A e \in Exchanges : \A k \in 1..Len(received[e]) :
        (CallAt(e, k) /\ CalledAt(e, k).name \notin DOMAIN function_handlers)
        => /\ Len(sent[e]) = k
           /\ Len(received[e]) = k
           /\ InvokedFor(e, k) = {}
           /\ request[e] = sent[e][k].body
           /\ pc[e] \in {"Inspecting", "Failed"}
           /\ pc[e] = "Failed" =>
                /\ IsSome(result[e])
                /\ ~Unwrap(result[e]).ok
                /\ Unwrap(result[e]).error.variant = "FunctionExecution"
                /\ \E i \in 1..Len(Unwrap(result[e]).error.message) :
                       Unwrap(result[e]).error.message[i] = CalledAt(e, k).name

C3_Witness ==
    \E e \in Exchanges :
        /\ pc[e] = "Failed"
        /\ Len(received[e]) = 2
        /\ CallAt(e, 2)
        /\ CalledAt(e, 2).name \notin DOMAIN function_handlers

\* C4: when a registered handler returns Err(m), in any round, the exchange ends
\* with a FunctionExecution error whose message is exactly m, the request's
\* contents are as long as before the handler ran and no further transport call
\* is made.
C4_HandlerFailureIsFatal ==
    \A e \in Exchanges : \A i \in 1..Len(invoked[e]) :
        ~invoked[e][i].ret.ok
        => /\ i = Len(invoked[e])
           /\ pc[e] = "Failed"
           /\ result[e] = Some(Err(FunctionExecution(<<invoked[e][i].ret.error>>)))
           /\ Len(sent[e]) = invoked[e][i].call
           /\ Len(request[e].contents) = Len(sent[e][invoked[e][i].call].body.contents)

C4_Witness ==
    \E e \in Exchanges :
        /\ Len(invoked[e]) = 2
        /\ ~invoked[e][2].ret.ok
        /\ pc[e] = "Failed"

\* C5: when a transport call fails, in any round, the exchange ends with exactly
\* the error generate_content produced; no further transport call is made, no
\* handler is invoked after the failure and no turn is appended.
C5_TransportFailureIsFatal ==
    \A e \in Exchanges : \A k \in 1..Len(received[e]) :
        ~Outcome(e, k).ok
        => /\ Len(sent[e]) = k
           /\ Len(received[e]) = k
           /\ pc[e] = "Failed"
           /\ result[e] = Some(Err(Outcome(e, k).error))
           /\ request[e] = sent[e][k].body
           /\ \A i \in 1..Len(invoked[e]) : invoked[e][i].call < k

C5_Witness ==
    \E e \in Exchanges :
        /\ Len(received[e]) = 2
        /\ ~Outcome(e, 2).ok
        /\ Outcome(e, 2).error.variant = "Api"
        /\ pc[e] = "Failed"

\* a function call to a registered name somewhere in the reply but not up front
HiddenCall(resp) ==
    \E j \in 1..Len(resp.candidates) :
        \E i \in 1..Len(resp.candidates[j].content.parts) :
            /\ <<j, i>> # <<1, 1>>
            /\ resp.candidates[j].content.parts[i].data.tag = "FunctionCall"
            /\ resp.candidates[j].content.parts[i].data.name \in DOMAIN function_handlers

\* C6: only the first part of the first candidate is inspected: a reply with no
\* candidates, with a first candidate without parts, or leading with a part that
\* is no function call is returned as it is and no handler is invoked, also when
\* a later part or a later candidate holds a call to a registered name.
C6_OnlyLeadingPartInspected ==
    \A e \in Exchanges : \A k \in 1..Len(received[e]) :
        (/\ Outcome(e, k).ok
         /\ \/ Outcome(e, k).value.candidates = <<>>
            \/ Outcome(e, k).value.candidates[1].content.parts = <<>>
            \/ LeadingPart(Outcome(e, k).value).data.tag \in
                 {"Text", "InlineData", "FileData", "FunctionResponse",
                  "ExecutableCode", "CodeExecutionResult"})
        => /\ Len(received[e]) = k
           /\ Len(sent[e]) = k
           /\ InvokedFor(e, k) = {}
           /\ pc[e] \in {"Inspecting", "Done"}
           /\ pc[e] = "Done" => result[e] = Some(Ok(Outcome(e, k).value))

C6_Witness ==
    \E e \in Exchanges :
        /\ pc[e] = "Done"
        /\ Unwrap(result[e]).value.candidates # <<>>
        /\ Unwrap(result[e]).value.candidates[1].content.parts = <<>>
        /\ HiddenCall(Unwrap(result[e]).value)

-----------------------------------------------------------------------------
(* Properties of generate_content and of the errors it reports *)

\* C7: the error kinds of generate_content tell the failures apart: a network
\* failure yields a Transport (Http) error, a non-success status with a readable
\* body an Api error, and a success response whose body does not parse a Decode
\* error of another kind than the Transport error.
C7_ErrorKindsDistinguishable ==
    \A e \in Exchanges : \A k \in 1..Len(received[e]) :
        LET http == received[e][k].http
            r == Outcome(e, k)
        IN /\ http.net = "error" => ~r.ok /\ r.error.variant = "Http"
           /\ (http.net = "ok" /\ ~IsSuccess(http.status) /\ http.readable)
                => ~r.ok /\ r.error.variant = "Api"
           /\ (/\ http.net = "ok"
               /\ IsSuccess(http.status)
               /\ http.readable
               /\ http.parsed = None)
                => ~r.ok /\ r.error.variant # "Http"

\* the message of an Api error holds the status and the body text of the
\* response it reports
CarriesStatusAndBody(error, http) ==
    /\ \E i \in 1..Len(error.message) : error.message[i] = StatusText(http.status)
    /\ \E i \in 1..Len(error.message) : error.message[i] = http.text

\* C8: every Api error of generate_content and of list_models, whatever the
\* page, carries the HTTP status code and the response body text.
C8_ApiErrorsCarryStatusAndBody ==
    /\ \A e \in Exchanges : \A k \in 1..Len(received[e]) :
          (~Outcome(e, k).ok /\ Outcome(e, k).error.variant = "Api")
          => CarriesStatusAndBody(Outcome(e, k).error, received[e][k].http)
    /\ (/\ IsSome(lm_result)
        /\ ~Unwrap(lm_result).ok
        /\ Unwrap(lm_result).error.variant = "Api")
       => CarriesStatusAndBody(Unwrap(lm_result).error, Last(lm_replies))

-----------------------------------------------------------------------------
(* Properties of list_models *)

\* the entries of the page served for page_token and of every page after it
RECURSIVE PagesFrom(_)
PagesFrom(page_token) ==
    LET page == ServePage(server, page_token)
    IN page.models \o (IF page.next_page_token = None
                       THEN <<>>
                       ELSE PagesFrom(page.next_page_token))

\* C9: list_models returns the entries of every page the server serves, in page
\* order and each once, following the page tokens until a page has none.
C9_PagesConcatenated ==
    lm_pc = "done" =>
        /\ IsSome(lm_result)
        /\ Unwrap(lm_result).ok
        /\ LET models == Unwrap(lm_result).value
               served == PagesFrom(None)
           IN /\ Len(models) = Len(served)
              /\ \A i \in 1..Len(served) :
                    /\ models[i].name = served[i].name
                    /\ models[i].display_name = served[i].display_name

\* a listing of two pages, the first with a token and the second without
C9_Witness ==
    /\ lm_pc = "done"
    /\ ServePage(server, None).next_page_token = Some(2)
    /\ ServePage(server, Some(2)).next_page_token = None
    /\ Len(ServePage(server, None).models) = 2
    /\ Len(Unwrap(lm_result).value) = 3

\* `name` without "models/" at its start, nothing else changed
StripPrefix(name) ==
    IF Len(name) >= Len(Prefix) /\ SubSeq(name, 1, Len(Prefix)) = Prefix
    THEN SubSeq(name, Len(Prefix) + 1, Len(name))
    ELSE name

\* C10: the base_model_id of every entry list_models returns is the entry's name
\* with the prefix "models/" stripped from its start and nothing else changed.
C10_BaseModelIdStripsPrefix ==
    (lm_pc = "done" /\ IsSome(lm_result) /\ Unwrap(lm_result).ok) =>
        \A i \in 1..Len(Unwrap(lm_result).value) :
            Unwrap(lm_result).value[i].base_model_id
                = StripPrefix(Unwrap(lm_result).value[i].name)

-----------------------------------------------------------------------------
(* Properties of stream_content *)

\* the items yielded for event n
ItemsFor(n) == {i \in 1..Len(st_items) : st_items[i].event = n}

IsError(event, kinds) == event.type = "Error" /\ event.error \in kinds

\* what holds of the stream whatever the refused response's body
StreamShape ==
    /\ \A i, j \in 1..Len(st_items) : i < j => st_items[i].event < st_items[j].event
    /\ \A n \in 1..Len(st_events) :
          /\ st_events[n].type = "Open" => ItemsFor(n) = {}
          /\ st_events[n].type = "Message" => Cardinality(ItemsFor(n)) = 1
          /\ IsError(st_events[n], {"StreamEnded"}) =>
                /\ ItemsFor(n) = {}
                /\ n = Len(st_events)
                /\ es = "closed"
          /\ IsError(st_events[n], {"InvalidContentType", "InvalidStatusCode"}) =>
                /\ n = Len(st_events)
                /\ Cardinality(ItemsFor(n)) = 1
                /\ Last(st_items).event = n
                /\ ~Last(st_items).item.ok

\* C11 as stated: one item per message event and none for the open event; a
\* normal end of stream ends the stream without an item; an unexpected content
\* type or status code yields one Api error item, the last of the stream.
C11_StreamItemsAsStated ==
    /\ StreamShape
    /\ \A n \in 1..Len(st_events) :
          IsError(st_events[n], {"InvalidContentType", "InvalidStatusCode"}) =>
              Last(st_items).item.error.variant = "Api"

\* C11, amended: as stated, except that the last item for an unexpected content
\* type or status code is an Api error (holding the body) when the body of the
\* refused response can be read, and the Http error of the failed read when not;
\* in both cases the stream ends with it.
C11_StreamItems ==
    /\ StreamShape
    /\ \A n \in 1..Len(st_events) :
          IsError(st_events[n], {"InvalidContentType", "InvalidStatusCode"}) =>
              IF st_events[n].response.readable
              THEN /\ Last(st_items).item.error.variant = "Api"
                   /\ \E i \in 1..Len(Last(st_items).item.error.message) :
                         Last(st_items).item.error.message[i] = st_events[n].response.text
              ELSE /\ Last(st_items).item.error.variant = "Http"
                   /\ st_pc = "done"

\* a message, a reconnect and then a refused status code with a readable body
C11_Witness ==
    /\ st_pc = "done"
    /\ \E n \in 1..Len(st_events) : st_events[n].type = "Message"
    /\ IsError(Last(st_events), {"InvalidStatusCode"})
    /\ Last(st_events).response.readable
    /\ Last(st_items).item.error.variant = "Api"

-----------------------------------------------------------------------------
(* Properties of ContentPart on the wire and of its constructors *)

Steps == 1..Len(cd_trace)

\* step i applied `op` to a ContentPart
PartStep(i, op) == cd_trace[i].ty = "ContentPart" /\ cd_trace[i].op = op

\* step i wrote a part and step i + 1 read what it wrote
WrittenThenRead(i) ==
    /\ i + 1 \in Steps
    /\ PartStep(i, "serialize")
    /\ PartStep(i + 1, "deserialize")

\* C12: a ContentPart whose metadata is None, of any variant and with thought
\* true or false, serialized and then deserialized, is decoded without error to
\* a value equal to the original.
C12_RoundTripWithoutMetadata ==
    \A i \in Steps :
        (WrittenThenRead(i) /\ cd_trace[i].in.metadata = None) =>
            /\ cd_trace[i + 1].form = "value"
            /\ cd_trace[i + 1].x = cd_trace[i].in

\* a thinking function call went to the wire and came back
C12_Witness ==
    /\ Len(cd_trace) = 2
    /\ WrittenThenRead(1)
    /\ cd_trace[1].in.metadata = None
    /\ cd_trace[1].in.thought
    /\ cd_trace[1].in.data.tag = "FunctionCall"
    /\ cd_trace[2].x = cd_trace[1].in

\* the wire object carries a metadata entry that is not null
PopulatedMetadata(json) ==
    /\ IsObject(json)
    /\ "metadata" \in Keys(json)
    /\ Get(json, "metadata") # Some(JNull)

\* step i read a part with populated metadata and step i + 1 wrote it again
ReadThenWritten(i) ==
    /\ i + 1 \in Steps
    /\ PartStep(i, "deserialize")
    /\ cd_trace[i].form = "value"
    /\ PopulatedMetadata(cd_trace[i].in)
    /\ PartStep(i + 1, "serialize")

\* C13: a part decoded from a wire object with populated metadata holds that
\* metadata; writing the decoded part gives an object with no metadata key, whose
\* only other keys are the variant's, with the data as received, and thought; and
\* every written part has the thought key exactly when its thought is true.
C13_MetadataReadNeverWritten ==
    /\ \A i \in Steps :
          (PartStep(i, "deserialize") /\ cd_trace[i].form = "value"
             /\ PopulatedMetadata(cd_trace[i].in)) =>
                cd_trace[i].x.metadata = Some(Unwrap(Get(cd_trace[i].in, "metadata")).v)
    /\ \A i \in Steps :
          ReadThenWritten(i) =>
              /\ "metadata" \notin Keys(cd_trace[i + 1].x)
              /\ \E k \in ContentDataVariants :
                    /\ Keys(cd_trace[i + 1].x) \ {"thought"} = {k}
                    /\ Get(cd_trace[i + 1].x, k) = Get(cd_trace[i].in, k)
              /\ cd_trace[i].x.thought = (Get(cd_trace[i].in, "thought") = Some(JBool(TRUE)))
    /\ \A i \in Steps :
          PartStep(i, "serialize") =>
              /\ ("thought" \in Keys(cd_trace[i].x)) = cd_trace[i].in.thought
              /\ cd_trace[i].in.thought => Get(cd_trace[i].x, "thought") = Some(JBool(TRUE))

\* a thinking part with a signature was read and written again
C13_Witness ==
    /\ Len(cd_trace) = 2
    /\ ReadThenWritten(1)
    /\ cd_trace[1].x.metadata = Some("sig")
    /\ cd_trace[1].x.thought
    /\ "thought" \in Keys(cd_trace[2].x)
    /\ "metadata" \notin Keys(cd_trace[2].x)

\* the variant each constructor is named for
NamedFor(fn) ==
    CASE fn = "new_text" -> "Text"
      [] fn = "new_inline_data" -> "InlineData"
      [] fn = "new_file_data" -> "FileData"
      [] fn = "new_function_call" -> "FunctionCall"
      [] fn = "new_function_response" -> "FunctionResponse"
      [] fn = "new_executable_code" -> "ExecutableCode"
      [] fn = "new_code_execution_result" -> "CodeExecutionResult"

\* the fields a ContentData of each variant holds
FieldsOf(tag) ==
    CASE tag = "Text" -> {"tag", "text"}
      [] tag = "InlineData" -> {"tag", "mime_type", "data"}
      [] tag = "FileData" -> {"tag", "mime_type", "file_uri"}
      [] tag = "FunctionCall" -> {"tag", "name", "arguments"}
      [] tag = "FunctionResponse" -> {"tag", "name", "response"}
      [] tag = "ExecutableCode" -> {"tag", "code"}
      [] tag = "CodeExecutionResult" -> {"tag", "value"}

ExactlyOneVariant(part) ==
    /\ part.data.tag \in {NamedFor(fn) : fn \in {c.fn : c \in ConstructorCalls} \ {"from"}}
    /\ DOMAIN part.data = FieldsOf(part.data.tag)

\* C14: every constructor returns a part that holds the data it was given, of
\* the variant it is named for, with metadata None and with thought true only
\* when the caller passed thought = true; every constructed or decoded part holds
\* exactly one variant, and a wire object that names no variant decodes to no part.
C14_ConstructorsAndOneVariant ==
    /\ \A i \in Steps :
          PartStep(i, "new") =>
              /\ cd_trace[i].x.data = cd_trace[i].in.of
              /\ cd_trace[i].in.fn # "from" => cd_trace[i].x.data.tag = NamedFor(cd_trace[i].in.fn)
              /\ cd_trace[i].x.metadata = None
              /\ cd_trace[i].x.thought = cd_trace[i].in.thought
    /\ \A i \in Steps :
          (cd_trace[i].ty = "ContentPart" /\ cd_trace[i].form = "value") =>
              ExactlyOneVariant(cd_trace[i].x)
    /\ \A i \in Steps :
          (PartStep(i, "deserialize") /\ IsObject(cd_trace[i].in)
             /\ Keys(cd_trace[i].in) \cap ContentDataVariants = {}) =>
                cd_trace[i].form = "error"

\* new_function_call was called with thought = true
C14_Witness ==
    /\ Len(cd_trace) = 1
    /\ PartStep(1, "new")
    /\ cd_trace[1].in.fn = "new_function_call"
    /\ cd_trace[1].in.thought
    /\ cd_trace[1].x = ContentPart(TRUE, FunctionCall("f", "a1"), None)

-----------------------------------------------------------------------------
(* Properties of Tool and FunctionDeclaration on the wire *)

ToolStep(i, op) == cd_trace[i].ty = "Tool" /\ cd_trace[i].op = op

\* the variants of Tool in the order they are declared, and the key of each
ToolOrder == <<"FunctionDeclaration", "DynamicRetrieval", "GoogleSearch", "CodeExecution">>
ToolKeys == <<"functionDeclarations", "googleSearchRetrieval", "googleSearch", "codeExecution">>

\* the key of variant n is present in the object and its value is well formed
PresentAndWellFormed(n, json) ==
    /\ ToolKeys[n] \in Keys(json)
    /\ CASE n = 1 -> DeserializeToolConfigFunctionDeclaration(json).ok
         [] n = 2 -> DeserializeToolDynamicRetrieval(json).ok
         [] n = 3 -> DeserializeToolGoogleSearch(json).ok
         [] n = 4 -> DeserializeToolCodeExecution(json).ok

\* C15: a wire object decodes as the first variant, in the order
\* FunctionDeclaration, DynamicRetrieval, GoogleSearch, CodeExecution, whose key
\* is present and well formed, holding what that key holds; so an object with
\* the keys of two variants decodes as the earlier one, an object with none of
\* the keys is rejected, and a written Tool reads back as the same variant.
C15_ToolDecodesAsFirstMatch ==
    /\ \A i \in Steps :
          (ToolStep(i, "deserialize") /\ IsObject(cd_trace[i].in)) =>
              /\ \A n \in 1..4 :
                    (PresentAndWellFormed(n, cd_trace[i].in)
                       /\ \A m \in 1..(n - 1) : ~PresentAndWellFormed(m, cd_trace[i].in)) =>
                          /\ cd_trace[i].form = "value"
                          /\ cd_trace[i].x.variant = ToolOrder[n]
              /\ (\A n \in 1..4 : ~PresentAndWellFormed(n, cd_trace[i].in)) =>
                    cd_trace[i].form = "error"
              /\ (\A n \in 1..4 : ToolKeys[n] \notin Keys(cd_trace[i].in)) =>
                    cd_trace[i].form = "error"
    /\ \A i \in Steps :
          (i + 1 \in Steps /\ ToolStep(i, "serialize") /\ ToolStep(i + 1, "deserialize")) =>
              /\ cd_trace[i + 1].form = "value"
              /\ cd_trace[i + 1].x.variant = cd_trace[i].in.variant

\* an object with googleSearch first and functionDeclarations second, both
\* well formed, was read as a FunctionDeclaration tool
C15_Witness ==
    /\ Len(cd_trace) = 1
    /\ ToolStep(1, "deserialize")
    /\ cd_trace[1].in = JObject(<<Entry("googleSearch", JValue("v1")),
                                  Entry("functionDeclarations", JArray(<<>>))>>)
    /\ cd_trace[1].x = ToolFunctionDeclaration(<<>>)

\* the number of entries of the object with this key
Count(json, key) == Cardinality({i \in 1..Len(json.entries) : json.entries[i].k = key})

\* the wire name of each variant of ParameterProperty
TypeNames ==
    { <<"String", "string">>, <<"Integer", "integer">>, <<"Boolean", "boolean">>,
      <<"Array", "array">> }

RECURSIVE IsSchemaOf(_, _)
\* the object is the schema of the property, at every depth
IsSchemaOf(json, property) ==
    /\ IsObject(json)
    /\ Count(json, "type") = 1
    /\ Unwrap(Get(json, "type")).j = "string"
    /\ <<property.variant, Unwrap(Get(json, "type")).s>> \in TypeNames
    /\ ("description" \in Keys(json)) = IsSome(property.description)
    /\ IsSome(property.description) =>
          Get(json, "description") = Some(JString(Unwrap(property.description)))
    /\ ("enum" \in Keys(json)) =
          (property.variant = "String" /\ IsSome(property.enum_values))
    /\ ("enum" \in Keys(json)) =>
          Get(json, "enum") = Some(JStrings(Unwrap(property.enum_values)))
    /\ Keys(json) \subseteq {"type", "description", "enum", "items"}
    /\ Count(json, "items") = (IF property.variant = "Array" THEN 1 ELSE 0)
    /\ property.variant = "Array" => IsSchemaOf(Unwrap(Get(json, "items")), property.items)

\* the object is the parameter schema of these FunctionParameters
IsParametersOf(json, parameters) ==
    /\ IsObject(json)
    /\ Keys(json) = {"type", "properties", "required"}
    /\ Len(json.entries) = 3
    /\ IsObject(Unwrap(Get(json, "properties")))
    /\ Len(Unwrap(Get(json, "properties")).entries) = Len(parameters.properties)
    /\ \A n \in 1..Len(parameters.properties) :
          /\ Unwrap(Get(json, "properties")).entries[n].k = parameters.properties[n].k
          /\ IsSchemaOf(Unwrap(Get(json, "properties")).entries[n].v,
                        parameters.properties[n].v)

DeclarationStep(i) ==
    cd_trace[i].ty = "FunctionDeclaration" /\ cd_trace[i].op = "serialize"

\* C16: a serialized FunctionDeclaration is an object whose parameter schema
\* (and response schema), when there is one, has exactly the keys type,
\* properties and required, and in which every property, at any depth, is an
\* object whose type is the variant's name in lowercase, with description and
\* enum present exactly when they are set and, for an array, exactly one items
\* schema.
C16_DeclarationSchema ==
    \A i \in Steps :
        DeclarationStep(i) =>
            /\ IsObject(cd_trace[i].x)
            /\ \A key \in {"parameters", "response"} :
                  /\ Count(cd_trace[i].x, key) = 1
                  /\ IsSome(cd_trace[i].in[key]) =>
                        IsParametersOf(Unwrap(Get(cd_trace[i].x, key)),
                                       Unwrap(cd_trace[i].in[key]))

\* a declaration whose one parameter is an array of arrays of arrays was written
C16_Witness ==
    /\ Len(cd_trace) = 1
    /\ DeclarationStep(1)
    /\ IsSome(cd_trace[1].in.parameters)
    /\ Len(Unwrap(cd_trace[1].in.parameters).properties) = 1
    /\ Unwrap(cd_trace[1].in.parameters).properties[1].v.variant = "Array"
    /\ Unwrap(cd_trace[1].in.parameters).properties[1].v.items.variant = "Array"
    /\ Unwrap(cd_trace[1].in.parameters).properties[1].v.items.items.variant = "Array"
    /\ IsObject(Unwrap(Get(cd_trace[1].x, "parameters")))

-----------------------------------------------------------------------------
(* Properties of exchanges that run side by side *)

\* the contents each exchange was started with
OriginalOf(e) ==
    IF e = "e1" THEN <<UserText("2+2?")>>
    ELSE <<UserText("hi"), ModelText("hello"), UserText("weather?")>>

\* the handler invocations of the exchange that returned a value
Answered(e) == SelectSeq(invoked[e], LAMBDA i : i.ret.ok)

\* the original turns, then the call turn and the response turn of each of the
\* exchange's own answered invocations, and nothing else
OwnTurnsOnly(e) ==
    /\ Len(request[e].contents) = Len(OriginalOf(e)) + 2 * Len(Answered(e))
    /\ SubSeq(request[e].contents, 1, Len(OriginalOf(e))) = OriginalOf(e)
    /\ \A k \in 1..Len(Answered(e)) :
          /\ request[e].contents[Len(OriginalOf(e)) + 2 * k - 1] =
                Content(<<ContentPart(FALSE, FunctionCall(Answered(e)[k].name,
                                                          Answered(e)[k].arguments), None)>>,
                        "user")
          /\ request[e].contents[Len(OriginalOf(e)) + 2 * k] =
                Content(<<ContentPart(FALSE, FunctionResponse(Answered(e)[k].name,
                                                              Answered(e)[k].ret.value), None)>>,
                        "tool")

RECURSIVE Alone(_, _)
\* what one exchange returns when it runs by itself from `contents` and the
\* model answers with `replies`: None while it waits for a further reply
Alone(contents, replies) ==
    IF replies = <<>> THEN None
    ELSE IF ~Head(replies).ret.ok THEN Some(Err(Head(replies).ret.error))
    ELSE IF Decision(Head(replies).ret.value, function_handlers) = "return"
         THEN Some(Ok(Head(replies).ret.value))
    ELSE IF Decision(Head(replies).ret.value, function_handlers) = "unknown"
         THEN Some(Err(UnknownFunction(Unwrap(FirstPart(Head(replies).ret.value)).data.name)))
    ELSE IF ~Handler(function_handlers[Unwrap(FirstPart(Head(replies).ret.value)).data.name],
                     Unwrap(FirstPart(Head(replies).ret.value)).data.arguments).ret.ok
         THEN Some(Err(HandlerFailed(
                  Handler(function_handlers[Unwrap(FirstPart(Head(replies).ret.value)).data.name],
                          Unwrap(FirstPart(Head(replies).ret.value)).data.arguments).ret.error)))
    ELSE Alone(contents, Tail(replies))

\* the exchange is between rounds or has returned
Settled(e) == pc[e] \in {"AwaitingModel", "InFlight", "Done", "Failed"}

NoInterference ==
    \A e \in Exchanges :
        /\ OwnTurnsOnly(e)
        /\ Settled(e) => result[e] = Alone(OriginalOf(e), received[e])

\* C17: exchanges that share the client and the handler registry and whose
\* steps interleave in any order do not interfere: no step changes the client,
\* each exchange's request holds its own original turns followed by the call and
\* response turns of its own rounds only, and each exchange returns what it
\* returns when it runs alone against the replies it received.
C17_ExchangesDoNotInterfere ==
    /\ []NoInterference
    /\ [][client' = client]_vars

\* both exchanges have returned, each after a round of its own
C17_Witness ==
    /\ \A e \in Exchanges : pc[e] \in {"Done", "Failed"}
    /\ \A e \in Exchanges : Len(Answered(e)) >= 1
    /\ result["e1"] # result["e2"]
    /\ Len(sent["e1"]) # Len(sent["e2"])

-----------------------------------------------------------------------------
(* Properties of one exchange against a given reply *)

\* the first transport call of the exchange sent the one user turn "2+2?" with
\* no tools and was answered, with status 200, by the named body of WireBodies
StubScenario(e, body) ==
    /\ Len(received[e]) >= 1
    /\ sent[e][1].body.contents = <<UserText("2+2?")>>
    /\ sent[e][1].body.tools = <<>>
    /\ received[e][1].http.net = "ok"
    /\ received[e][1].http.readable
    /\ received[e][1].http.status = 200
    /\ received[e][1].http.text = body

\* the exchange made one transport call and, once it has returned, returned Ok
\* with the text "4" as the first part of the first candidate
YieldsFour(e) ==
    /\ Len(sent[e]) = 1
    /\ pc[e] \in {"Inspecting", "Done"}
    /\ pc[e] = "Done" =>
          /\ Unwrap(result[e]).ok
          /\ LeadsWith(Unwrap(result[e]).value, "Text")
          /\ LeadingPart(Unwrap(result[e]).value).data.text = "4"

\* C18, as stated: the request with the one user turn "2+2?" and no tools,
\* answered by a response whose body is {candidates: [{content: {role: model,
\* parts: [{text: "4"}]}}]}, returns Ok with the text "4" as the first part of
\* the first candidate, after exactly one transport call.
C18_TwoPlusTwoAsStated ==
    \A e \in Exchanges : StubScenario(e, "candidates_only") => YieldsFour(e)

\* C18: the request with the one user turn "2+2?" and no tools returns Ok with
\* the text "4" as the first part of the first candidate, after exactly one
\* transport call, when the response body holds, besides the candidates, the
\* usageMetadata (with promptTokenCount and totalTokenCount), the modelVersion
\* and the responseId; answered by the body with the candidates only, it
\* returns the Http error of the failed decoding, after that one call.
C18_TwoPlusTwo ==
    \A e \in Exchanges :
        /\ StubScenario(e, "complete") => YieldsFour(e)
        /\ StubScenario(e, "candidates_only") =>
              /\ Len(sent[e]) = 1
              /\ pc[e] = "Failed"
              /\ result[e] = Some(Err(Http("decode")))

C18_Witness ==
    \E e \in Exchanges :
        /\ StubScenario(e, "complete")
        /\ pc[e] = "Done"
        /\ LeadingPart(Unwrap(result[e]).value).data.text = "4"

-----------------------------------------------------------------------------
(* Properties of the turns the orchestrator appends *)

\* the turns of the request of transport call k that come after the contents
\* the caller passed, which are the contents of the first transport call
AppendedTurns(e, k) ==
    SubSeq(sent[e][k].body.contents,
           Len(sent[e][1].body.contents) + 1, Len(sent[e][k].body.contents))

IsFunctionResponseTurn(turn) ==
    /\ Len(turn.parts) = 1
    /\ turn.parts[1].data.tag = "FunctionResponse"

\* C19: in every request sent by generate_content_with_function_calling, the
\* caller's original contents are kept in front, each tool-role turn behind
\* them has exactly one part, which is a function response, and no turn behind
\* them has the role model or system.
C19_ToolTurnsAreFunctionResponses ==
    \A e \in Exchanges : \A k \in 1..Len(sent[e]) :
        /\ SubSeq(sent[e][k].body.contents, 1, Len(sent[e][1].body.contents))
              = sent[e][1].body.contents
        /\ \A i \in 1..Len(AppendedTurns(e, k)) :
              /\ AppendedTurns(e, k)[i].role \notin {"model", "system"}
              /\ AppendedTurns(e, k)[i].role = "tool"
                    => IsFunctionResponseTurn(AppendedTurns(e, k)[i])

C19_Witness ==
    \E e \in Exchanges : \E k \in 1..Len(sent[e]) :
        \E i \in 1..Len(AppendedTurns(e, k)) :
            /\ AppendedTurns(e, k)[i].role = "tool"
            /\ IsFunctionResponseTurn(AppendedTurns(e, k)[i])

\* the contents of the request after invocation n of the exchange: those of the
\* next transport call, or of the request not yet posted
ContentsAfter(e, n) ==
    IF invoked[e][n].call < Len(sent[e])
    THEN sent[e][invoked[e][n].call + 1].body.contents
    ELSE request[e].contents

\* the function-call turn appended for invocation n: the first turn behind the
\* contents of the transport call whose reply held the call
CallTurn(e, n) ==
    ContentsAfter(e, n)[Len(sent[e][invoked[e][n].call].body.contents) + 1]

\* the function call as the model sent it in the reply to that transport call
ModelCall(e, n) == LeadingPart(received[e][invoked[e][n].call].ret.value).data

\* C20: for every handler invocation that returned a value, whatever view of
\* the arguments the handler left behind, the function-call turn appended to
\* the request has one part, a function call with the name and the arguments
\* exactly as the model sent them.
C20_CallTurnCarriesOriginalArguments ==
    \A e \in Exchanges : \A n \in 1..Len(invoked[e]) :
        invoked[e][n].ret.ok =>
            /\ Len(CallTurn(e, n).parts) = 1
            /\ CallTurn(e, n).parts[1].data.tag = "FunctionCall"
            /\ CallTurn(e, n).parts[1].data.name = ModelCall(e, n).name
            /\ CallTurn(e, n).parts[1].data.arguments = ModelCall(e, n).arguments

C20_Witness ==
    \E e \in Exchanges : \E n \in 1..Len(invoked[e]) :
        /\ invoked[e][n].ret.ok
        /\ invoked[e][n].view # invoked[e][n].arguments
        /\ invoked[e][n].call < Len(sent[e])
        /\ CallTurn(e, n).parts[1].data.arguments = ModelCall(e, n).arguments
        /\ CallTurn(e, n).parts[1].data.arguments # invoked[e][n].view

-----------------------------------------------------------------------------
(* Properties of the rounds of one exchange *)

IsFunctionCallTurn(turn) ==
    /\ Len(turn.parts) = 1
    /\ turn.parts[1].data.tag = "FunctionCall"

\* C21: in every request sent by generate_content_with_function_calling, every
\* function-response turn behind the caller's contents is the second turn of a
\* round's pair, the turn right before it is the function-call turn of that
\* round, and the response has the name of that call.
C21_ResponseFollowsItsCall ==
    \A e \in Exchanges : \A k \in 1..Len(sent[e]) :
        \A i \in 1..Len(AppendedTurns(e, k)) :
            IsFunctionResponseTurn(AppendedTurns(e, k)[i]) =>
                /\ i % 2 = 0
                /\ IsFunctionCallTurn(AppendedTurns(e, k)[i - 1])
                /\ AppendedTurns(e, k)[i].parts[1].data.name
                      = AppendedTurns(e, k)[i - 1].parts[1].data.name

\* a request of the third transport call: two rounds, each with its pair
C21_Witness ==
    \E e \in Exchanges : \E k \in 1..Len(sent[e]) :
        /\ Len(AppendedTurns(e, k)) = 4
        /\ IsFunctionResponseTurn(AppendedTurns(e, k)[4])
        /\ IsFunctionCallTurn(AppendedTurns(e, k)[3])
        /\ AppendedTurns(e, k)[4].parts[1].data.name
              = AppendedTurns(e, k)[3].parts[1].data.name

-----------------------------------------------------------------------------
(* Properties of the loop as a whole *)

Returned(e) == pc[e] \in {"Done", "Failed"}

\* C22: against a model whose every reply starts with a call of a registered
\* function, handlers that return Ok and a transport that never fails, the
\* exchange never returns, neither a response nor an error, and the number of
\* its transport calls reaches the bound of the model, whatever that bound is.
C22_LoopHasNoCap ==
    /\ [](\A e \in Exchanges : ~Returned(e) /\ result[e] = None)
    /\ <>(Len(sent["e1"]) = MaxCalls)
    /\ [](Len(sent["e1"]) = MaxCalls /\ Len(invoked["e1"]) = MaxCalls
             => pc["e1"] = "AwaitingModel")

\* every transport call allowed by the bound was made and answered by a call,
\* every handler returned, and the loop is at its top again
C22_Witness ==
    /\ Len(sent["e1"]) = MaxCalls
    /\ Len(invoked["e1"]) = MaxCalls
    /\ pc["e1"] = "AwaitingModel"
    /\ result["e1"] = None

\* the reply of transport call k of the exchange, as generate_content gave it
ReplyOf(e, k) == received[e][k].ret.value

\* what holds of an exchange's result in every state
ReturnsOnlyFromNoCallBranch(e) ==
    /\ result[e] # None <=> Returned(e)
    /\ pc[e] = "Failed" => ~Unwrap(result[e]).ok
    /\ pc[e] = "Done" =>
          /\ Unwrap(result[e]).ok
          /\ Last(received[e]).ret.ok
          /\ ~LeadsWith(ReplyOf(e, Len(received[e])), "FunctionCall")
    /\ (result[e] # None /\ Unwrap(result[e]).ok) => pc[e] = "Done"

\* a step leaves a returned exchange as it is
ReturnedIsFinal(e) ==
    Returned(e) =>
        /\ pc'[e] = pc[e]
        /\ result'[e] = result[e]
        /\ sent'[e] = sent[e]
        /\ received'[e] = received[e]
        /\ invoked'[e] = invoked[e]
        /\ request'[e] = request[e]

\* C23: generate_content_with_function_calling returns a response only from
\* the branch where the latest reply does not start with a function call;
\* every other way of ending returns an error and no response; and once it has
\* returned, a response or an error, it makes no transport call and invokes no
\* handler.
C23_ResponseOnlyFromReturnBranch ==
    /\ [](\A e \in Exchanges : ReturnsOnlyFromNoCallBranch(e))
    /\ [][\A e \in Exchanges : ReturnedIsFinal(e)]_vars

\* an exchange that returned a response after a round
C23_Witness ==
    \E e \in Exchanges :
        /\ pc[e] = "Done"
        /\ Len(invoked[e]) = 1
        /\ Unwrap(result[e]).ok
        /\ ~LeadsWith(Unwrap(result[e]).value, "FunctionCall")

\* the returned response is the body of the last reply, field by field, and the
\* reply of no earlier transport call
ReturnsLastReply(e) ==
    pc[e] = "Done" =>
        /\ Len(received[e]) = Len(sent[e])
        /\ Unwrap(result[e]).value = Unwrap(Last(received[e]).http.parsed)
        /\ \A f \in {"candidates", "usage_metadata", "model_version", "response_id",
                     "prompt_feedback"} :
              Unwrap(result[e]).value[f] = Unwrap(Last(received[e]).http.parsed)[f]
        /\ \A k \in 1..(Len(received[e]) - 1) :
              Unwrap(result[e]).value # ReplyOf(e, k)

\* what generate_content gave for a reply is the body as it was parsed, and the
\* reply under inspection is the latest one
RepliesUntouched(e) ==
    /\ \A k \in 1..Len(received[e]) :
          received[e][k].ret.ok => ReplyOf(e, k) = Unwrap(received[e][k].http.parsed)
    /\ response[e] # None => Unwrap(response[e]) = ReplyOf(e, Len(received[e]))

\* a step changes no reply already received
RepliesKept(e) ==
    /\ Len(received'[e]) >= Len(received[e])
    /\ \A k \in 1..Len(received[e]) : received'[e][k] = received[e][k]

\* C24: the response returned by a successful
\* generate_content_with_function_calling is the reply of the last transport
\* call, equal to it in candidates, usage metadata, model version, response id
\* and prompt feedback; the reply of no earlier round is returned, and no step
\* changes a reply.
C24_ReturnsLastReplyAsIs ==
    /\ [](\A e \in Exchanges : ReturnsLastReply(e) /\ RepliesUntouched(e))
    /\ [][\A e \in Exchanges : RepliesKept(e)]_vars

\* a response returned after two rounds
C24_Witness ==
    \E e \in Exchanges :
        /\ pc[e] = "Done"
        /\ Len(received[e]) = 3
        /\ Unwrap(result[e]).value = ReplyOf(e, 3)
        /\ Unwrap(result[e]).value # ReplyOf(e, 1)

\* invocation n of the exchange: the handler registered under the name of the
\* call that starts the reply of its round, called with that call's arguments
InvokedAsInspected(e, n) ==
    /\ invoked[e][n].call \in 1..Len(received[e])
    /\ LeadsWith(ReplyOf(e, invoked[e][n].call), "FunctionCall")
    /\ invoked[e][n].name = LeadingPart(ReplyOf(e, invoked[e][n].call)).data.name
    /\ invoked[e][n].name \in DOMAIN function_handlers
    /\ invoked[e][n].ret
          = Handler(function_handlers[invoked[e][n].name],
                    LeadingPart(ReplyOf(e, invoked[e][n].call)).data.arguments).ret

\* at most one invocation in a round, and exactly one in a round that was
\* followed by another transport call
OneInvocationPerRound(e) ==
    /\ \A n \in 1..Len(invoked[e]) : InvokedAsInspected(e, n)
    /\ \A m, n \in 1..Len(invoked[e]) : invoked[e][m].call = invoked[e][n].call => m = n
    /\ \A k \in 1..(Len(sent[e]) - 1) : \E n \in 1..Len(invoked[e]) : invoked[e][n].call = k

\* C25: no step of generate_content_with_function_calling changes the handler
\* registry, and in each round at most one handler is invoked, exactly once:
\* the one registered under the name of the function call that starts the
\* round's reply.
C25_RegistryReadOnlyOneHandlerPerRound ==
    /\ [](\A e \in Exchanges : OneInvocationPerRound(e))
    /\ [][function_handlers' = function_handlers]_vars

\* two rounds with two registered handlers, one invocation each
C25_Witness ==
    \E e \in Exchanges :
        /\ Len(invoked[e]) = 2
        /\ invoked[e][1].name # invoked[e][2].name
        /\ DOMAIN function_handlers = {"f", "g"}
        /\ Len(sent[e]) = 3

\* the replies so far: every transport call succeeded, every reply but the
\* last starts with a call of a registered function, the last one does not
\* start with a function call, and every handler invoked returned a value
FirstNonCallIsLast(e) ==
    /\ Len(received[e]) >= 1
    /\ \A k \in 1..Len(received[e]) : received[e][k].ret.ok
    /\ \A k \in 1..(Len(received[e]) - 1) :
          /\ LeadsWith(ReplyOf(e, k), "FunctionCall")
          /\ LeadingPart(ReplyOf(e, k)).data.name \in DOMAIN function_handlers
    /\ ~LeadsWith(ReplyOf(e, Len(received[e])), "FunctionCall")
    /\ \A n \in 1..Len(invoked[e]) : invoked[e][n].ret.ok

\* n transport calls, n - 1 handler invocations, and the loop about to return
\* the response or returned with it
EndsAfterThatReply(e) ==
    /\ Len(sent[e]) = Len(received[e])
    /\ Len(invoked[e]) = Len(received[e]) - 1
    /\ pc[e] \in {"Inspecting", "Done"}
    /\ pc[e] = "Done" => Unwrap(result[e]).ok

\* invocation k belongs to round k: transport call k has returned when it is
\* made, and transport call k + 1 starts only after it
InvocationsBetweenCalls(e) ==
    /\ \A k \in 1..Len(invoked[e]) :
          invoked[e][k].call = k /\ Len(received[e]) >= k
    /\ Len(sent[e]) <= Len(invoked[e]) + 1
    /\ Len(received[e]) <= Len(sent[e])

\* C26: if the n-th reply is the first that does not start with a function
\* call, the earlier replies call registered functions and every handler and
\* transport call succeeds, then generate_content_with_function_calling
\* returns Ok after exactly n transport calls and n - 1 handler invocations;
\* and in every run invocation k comes after transport call k has returned and
\* before transport call k + 1 starts.
C26_TerminatesAfterFirstNonCall ==
    /\ [](\A e \in Exchanges :
             /\ InvocationsBetweenCalls(e)
             /\ FirstNonCallIsLast(e) => EndsAfterThatReply(e))
    /\ \A e \in Exchanges :
          FirstNonCallIsLast(e) ~> (pc[e] = "Done" /\ EndsAfterThatReply(e))

\* n = 3: two rounds, then the reply that ends the exchange
C26_Witness ==
    \E e \in Exchanges :
        /\ FirstNonCallIsLast(e)
        /\ Len(received[e]) = 3
        /\ Len(invoked[e]) = 2
        /\ pc[e] = "Done"

-----------------------------------------------------------------------------
(* Properties of the requests of one exchange *)

IsPrefix(s, t) == Len(s) <= Len(t) /\ SubSeq(t, 1, Len(s)) = s

\* C27: across the transport calls of one exchange the contents are
\* append-only: those of call k are a prefix of those of every later call, and
\* their length is the original length plus 2 * (k - 1); the system
\* instruction, the tools, the tool config and the generation config are the
\* same on every call.
C27_ContentsAppendOnly ==
    \A e \in Exchanges : \A k \in 1..Len(sent[e]) :
        /\ Len(sent[e][k].body.contents) = Len(sent[e][1].body.contents) + 2 * (k - 1)
        /\ \A later \in k..Len(sent[e]) :
              IsPrefix(sent[e][k].body.contents, sent[e][later].body.contents)
        /\ sent[e][k].body.system_instruction = sent[e][1].body.system_instruction
        /\ sent[e][k].body.tools = sent[e][1].body.tools
        /\ sent[e][k].body.tool_config = sent[e][1].body.tool_config
        /\ sent[e][k].body.generation_config = sent[e][1].body.generation_config

\* three transport calls of a request that declares tools and has a system
\* instruction
C27_Witness ==
    \E e \in Exchanges :
        /\ Len(sent[e]) = 3
        /\ sent[e][3].body.tools # <<>>
        /\ sent[e][3].body.system_instruction # None
        /\ Len(sent[e][3].body.contents) = Len(sent[e][1].body.contents) + 4
        /\ IsPrefix(sent[e][2].body.contents, sent[e][3].body.contents)

\* the part of the model's reply that invocation n answered
ModelPart(e, n) == LeadingPart(ReplyOf(e, invoked[e][n].call))

\* the function-response turn appended for invocation n: the second turn behind
\* the contents of the transport call whose reply held the call
ResponseTurn(e, n) ==
    ContentsAfter(e, n)[Len(sent[e][invoked[e][n].call].body.contents) + 2]

\* C28: the function-call part the orchestrator appends has thought = false and
\* no metadata, also when the model's function-call part was a thought or had
\* metadata; it holds the call's name and arguments and nothing else of the
\* model's part; the appended function-response part has thought = false and
\* no metadata too.
C28_AppendedPartsArePlain ==
    \A e \in Exchanges : \A n \in 1..Len(invoked[e]) :
        invoked[e][n].ret.ok =>
            /\ CallTurn(e, n).parts
                  = <<ContentPart(FALSE,
                                  FunctionCall(ModelPart(e, n).data.name,
                                               ModelPart(e, n).data.arguments),
                                  None)>>
            /\ Len(ResponseTurn(e, n).parts) = 1
            /\ ResponseTurn(e, n).parts[1].data.tag = "FunctionResponse"
            /\ ResponseTurn(e, n).parts[1].thought = FALSE
            /\ ResponseTurn(e, n).parts[1].metadata = None

\* the model's function-call part was a thought with a signature
C28_Witness ==
    \E e \in Exchanges : \E n \in 1..Len(invoked[e]) :
        /\ invoked[e][n].ret.ok
        /\ ModelPart(e, n).thought
        /\ ModelPart(e, n).metadata # None
        /\ CallTurn(e, n).parts[1].thought = FALSE
        /\ CallTurn(e, n).parts[1].metadata = None

-----------------------------------------------------------------------------
(* Properties of the requests of list_models *)

\* the number of pages the server cuts its catalogue into; an empty catalogue
\* is one empty page
PagesOf(srv) ==
    IF Len(srv.catalogue) = 0 THEN 1
    ELSE (Len(srv.catalogue) + srv.page_len - 1) \div srv.page_len

\* request k has the nextPageToken of the response before it
FollowsToken(k) ==
    /\ lm_replies[k - 1].net = "ok"
    /\ lm_replies[k - 1].readable
    /\ lm_replies[k - 1].parsed # None
    /\ lm_requests[k].page_token = Unwrap(lm_replies[k - 1].parsed).next_page_token
    /\ lm_requests[k].page_token # None

\* C29: list_models issues one GET per page: exactly one request has no
\* pageToken, each later request has the nextPageToken of the response before
\* it, and a listing of p pages that succeeds has made exactly p requests; when
\* a request is answered with a non-success status, the operation returns an
\* error and none of the models of the earlier pages.
C29_OneGetPerPage ==
    /\ \A k \in 1..Len(lm_requests) : lm_requests[k].page_token = None <=> k = 1
    /\ \A k \in 2..Len(lm_requests) : FollowsToken(k)
    /\ lm_pc = "done" => Len(lm_requests) = PagesOf(server)
    /\ lm_pc = "failed" => ~Unwrap(lm_result).ok

-----------------------------------------------------------------------------
(* Properties of a message of the stream that does not parse *)

Unparsable(n) == st_events[n].type = "Message" /\ st_events[n].parsed = None

\* the one item yielded for message event n
ItemOf(n) == st_items[CHOOSE i \in ItemsFor(n) : TRUE].item

\* C30: a message event whose data does not parse into a response yields one
\* error item and leaves the stream going; the message events that arrive
\* after it are yielded too, one item each, in the order of arrival.
C30_ParseErrorDoesNotEndStream ==
    /\ \A i, j \in 1..Len(st_items) : i < j => st_items[i].event < st_items[j].event
    /\ \A n \in 1..Len(st_events) :
          Unparsable(n) =>
              /\ Cardinality(ItemsFor(n)) = 1
              /\ ~ItemOf(n).ok
              /\ ItemOf(n).error.variant = "Json"
              /\ n = Len(st_events) => st_pc = "streaming" /\ es = "open"
              /\ \A m \in (n + 1)..Len(st_events) :
                    st_events[m].type = "Message" =>
                        /\ Cardinality(ItemsFor(m)) = 1
                        /\ st_events[m].parsed # None =>
                              ItemOf(m) = Ok(Unwrap(st_events[m].parsed))

\* a message that does not parse, then one that does, both yielded in order
C30_Witness ==
    \E n \in 1..(Len(st_events) - 1) :
        /\ Unparsable(n)
        /\ st_events[n + 1].type = "Message"
        /\ st_events[n + 1].parsed # None
        /\ ~ItemOf(n).ok
        /\ ItemOf(n + 1).ok
        /\ \E i \in 1..(Len(st_items) - 1) :
              st_items[i].event = n /\ st_items[i + 1].event = n + 1

====
